---- MODULE Spec2Model ----
(***************************************************************************)
(* genimage-inserter: the marker-based insertion protocol of main.ts       *)
(* (handleGenerateImage / executeGeneration) around the orchestrator       *)
(* ImageGeneratorService.generate of services/image-generator.ts.          *)
(*                                                                         *)
(* Text is a sequence of items.  An item is one character, or one whole    *)
(* marker comment <!-- genimage-pending-{ms}-{rand} -->, which is          *)
(* determined by the pair <<ms, rand>> (the digits of ms and the base-36   *)
(* characters of rand are separated by "-", and two markers can only       *)
(* match each other as wholes).  Every item carries the writer that put it *)
(* into the document (0 = the user, i = invocation i); the program never   *)
(* reads that field.  The editor buffer and the vault file of the note are *)
(* one content.                                                            *)
(***************************************************************************)
EXTENDS Integers, Sequences, FiniteSets, TLC

\* ------------------------------------------------------------------ bounds
MaxInv == 2
MaxEdits == 1
MaxMs == 0
MaxSec == 1

MaxParts == 2

MaxCandidates == 2
MaxArgs == 1
MaxCommands == 2
MaxCalls == 3
MaxChanges == 2

Inv == 1..MaxInv

\* ------------------------------------------------------------ environment
\* Epoch of the model clock (the README's example asset was written then).
Epoch == [year |-> 2026, month |-> 2, day |-> 7, hour |-> 14, minute |-> 30, second |-> 52]

\* Outcomes of Math.random().toString(36).slice(2, 8): base-36 strings.
RandVals == {"k3", "z"}

\* file.basename of the note.
NoteNames == {<<"m", " ", "$">>}

\* Contents of the note when the plugin is loaded.
InitDocs == {<<"a">>, <<" ">>}

\* Values of the three path settings.
EnvPaths == {"", "~/.env"}
PromptDirs == {"", "prompts"}
OutputDirs == {<<"/", "o", " ">>}

\* Template names found in the prompt directory.
Templates == {"t1", "t2"}

\* MIME types the provider reports.
Mimes == {"image/jpeg"}

\* ------------------------------------------------------------------- text
Ch(c, by) == [c |-> c, tok |-> <<>>, by |-> by]

Mk(tok, by) == [c |-> "marker", tok |-> tok, by |-> by]

Text(s, by) == [k \in 1..Len(s) |-> Ch(s[k], by)]

IsMarker(it) == it.tok # <<>>

IsSpace(c) == c \in {" ", "\n", "\t"}

\* The same string, whoever wrote it.
SameText(a, b) == a.c = b.c /\ a.tok = b.tok

InsertAt(d, p, xs) == SubSeq(d, 1, p) \o xs \o SubSeq(d, p + 1, Len(d))

RemoveAt(d, p) == SubSeq(d, 1, p - 1) \o SubSeq(d, p + 1, Len(d))

\* String.prototype.indexOf for a marker: first position, 0 when absent.
IndexOf(content, marker) ==
  LET hits == {p \in 1..Len(content) : SameText(content[p], marker)}
  IN IF hits = {} THEN 0 ELSE CHOOSE p \in hits : \A q \in hits : p <= q

\* String.prototype.trim() = "" ?
TrimIsEmpty(s) == \A k \in 1..Len(s) : ~IsMarker(s[k]) /\ IsSpace(s[k].c)

\* ------------------------------------------- services/image-generator.ts
\* getExtensionFromMimeType: mimeToExt[mimeType] || '.png'
getExtensionFromMimeType(mimeType) ==
  CASE mimeType = "image/png" -> <<".", "p", "n", "g">>
    [] mimeType = "image/jpeg" -> <<".", "j", "p", "g">>
    [] mimeType = "image/jpg" -> <<".", "j", "p", "g">>
    [] mimeType = "image/webp" -> <<".", "w", "e", "b", "p">>
    [] mimeType = "image/gif" -> <<".", "g", "i", "f">>
    [] OTHER -> <<".", "p", "n", "g">>

Digit(n) == <<"0", "1", "2", "3", "4", "5", "6", "7", "8", "9">>[n + 1]

\* String(n).padStart(2, '0') for 0 <= n <= 99
Pad2(n) == <<Digit(n \div 10), Digit(n % 10)>>

Year4(n) == <<Digit(n \div 1000), Digit((n \div 100) % 10), Digit((n \div 10) % 10), Digit(n % 10)>>

\* generateTimestamp at clock t = [s, ms]: the local time to the second.
\* The model clock stays within the epoch's hour.
generateTimestamp(t) ==
  LET total == Epoch.second + t.s
  IN Year4(Epoch.year) \o Pad2(Epoch.month) \o Pad2(Epoch.day) \o Pad2(Epoch.hour)
       \o Pad2(Epoch.minute + (total \div 60)) \o Pad2(total % 60)

IllegalChars == {"<", ">", ":", "\"", "/", "\\", "|", "?", "*"}

RECURSIVE CollapseSpace(_)
\* .replace(/\s+/g, '_'): every run of whitespace becomes one underscore
CollapseSpace(s) ==
  IF s = <<>> THEN <<>>
  ELSE IF IsSpace(Head(s))
       THEN IF Len(s) >= 2 /\ IsSpace(s[2])
            THEN CollapseSpace(Tail(s))
            ELSE <<"_">> \o CollapseSpace(Tail(s))
       ELSE <<Head(s)>> \o CollapseSpace(Tail(s))

\* sanitizeFilename: name.replace(/[<>:"/\\|?*]/g, '_').replace(/\s+/g, '_')
sanitizeFilename(name) ==
  CollapseSpace([k \in 1..Len(name) |-> IF name[k] \in IllegalChars THEN "_" ELSE name[k]])

RECURSIVE StripLeft(_, _)
StripLeft(s, cs) ==
  IF s # <<>> /\ Head(s) \in cs THEN StripLeft(Tail(s), cs) ELSE s

RECURSIVE StripRight(_, _)
StripRight(s, cs) ==
  IF s # <<>> /\ s[Len(s)] \in cs THEN StripRight(SubSeq(s, 1, Len(s) - 1), cs) ELSE s

\* saveImage: imageOutputDirectory.trim().replace(/^\/+|\/+$/g, '')
BaseDir(imageOutputDirectory) ==
  LET trimmed == StripRight(StripLeft(imageOutputDirectory, {" ", "\n", "\t"}), {" ", "\n", "\t"})
  IN StripRight(StripLeft(trimmed, {"/"}), {"/"})

\* saveImage: baseDir ? `${baseDir}/${noteName}` : noteName
OutputDir(imageOutputDirectory, name) ==
  LET baseDir == BaseDir(imageOutputDirectory)
  IN IF baseDir # <<>> THEN baseDir \o <<"/">> \o name ELSE name

\* saveImage: `${timestamp}_${sanitizedNoteName}${ext}`
FileName(name, t, mimeType) ==
  generateTimestamp(t) \o <<"_">> \o sanitizeFilename(name) \o getExtensionFromMimeType(mimeType)

\* saveImage: `${outputDir}/${filename}`
FilePath(outputDir, name, t, mimeType) == outputDir \o <<"/">> \o FileName(name, t, mimeType)

\* generate: `\n![](<${imagePath}>)\n`
ImageLink(imagePath) ==
  <<"\n", "!", "[", "]", "(", "<">> \o imagePath \o <<">", ")", "\n">>

\* ---------------------------------------------------------------- main.ts
\* What generate settles with is a JS value: null, or the object
\* { imageLink, promptName }.  replacementText holds '' or that value.
EmptyString == [kind |-> "string", s |-> <<>>, promptName |-> ""]

ResultObject(imageLink, promptName) == [kind |-> "object", s |-> imageLink, promptName |-> promptName]

\* ToString of a replace() argument: a string is itself, a plain object is
\* "[object Object]".
ToStringJS(v) ==
  IF v.kind = "object"
  THEN <<"[", "o", "b", "j", "e", "c", "t", " ", "O", "b", "j", "e", "c", "t", "]">>
  ELSE v.s

\* if (imageLink) / replacementText ? ... : ... (an object is truthy, '' is not)
Truthy(v) == v.kind = "object" \/ v.s # <<>>

\* The grave accent character (it cannot be written in a string here).
Grave == "grave"

RECURSIVE GetSubstitution(_, _, _, _, _)
\* The replacement-string patterns of String.prototype.replace with a string
\* pattern: $$, $&, $(grave accent), $' ; any other $ is literal.  The text
\* is written by "by".
GetSubstitution(r, matched, pre, post, by) ==
  LET Copy(xs) == [k \in 1..Len(xs) |-> [xs[k] EXCEPT !.by = by]]
  IN IF r = <<>> THEN <<>>
     ELSE IF Head(r) = "$" /\ Len(r) >= 2 /\ r[2] \in {"$", "&", Grave, "'"}
     THEN (CASE r[2] = "$" -> <<Ch("$", by)>>
             [] r[2] = "&" -> Copy(<<matched>>)
             [] r[2] = Grave -> Copy(pre)
             [] OTHER -> Copy(post))
          \o GetSubstitution(Tail(Tail(r)), matched, pre, post, by)
     ELSE <<Ch(Head(r), by)>> \o GetSubstitution(Tail(r), matched, pre, post, by)

\* content.replace(marker, replacementText): the first occurrence only
StringReplace(content, marker, replacementText, by) ==
  LET p == IndexOf(content, marker)
      pre == SubSeq(content, 1, p - 1)
      post == SubSeq(content, p + 1, Len(content))
  IN IF p = 0 THEN content
     ELSE pre \o GetSubstitution(ToStringJS(replacementText), content[p], pre, post, by) \o post

\* A callback that writes the replacement over everything from the marker on.
ProcessCallbackTruncating(content, marker, replacementText, by) ==
  LET p == IndexOf(content, marker)
  IN IF p # 0
     THEN [content |-> SubSeq(content, 1, p - 1) \o Text(ToStringJS(replacementText), by),
           log |-> "debug:replacing"]
     ELSE [content |-> content, log |-> "warn:marker-not-found"]

\* A callback that appends the replacement when the marker is gone.
ProcessCallbackAppending(content, marker, replacementText, by) ==
  IF IndexOf(content, marker) # 0
  THEN [content |-> StringReplace(content, marker, replacementText, by), log |-> "debug:replacing"]
  ELSE [content |-> content \o Text(ToStringJS(replacementText), by), log |-> "warn:marker-not-found"]

\* The callback of vault.process in executeGeneration.
ProcessCallback(content, marker, replacementText, by) ==
  IF IndexOf(content, marker) # 0
  THEN [content |-> StringReplace(content, marker, replacementText, by), log |-> "debug:replacing"]
  ELSE [content |-> content, log |-> "warn:marker-not-found"]

\* ------------------------------------------------------- api/gemini.ts
\* Strings that are searched or cut are sequences of characters.
GEMINI_3_PRO_IMAGE_PREVIEW == <<"g", "e", "m", "i", "n", "i", "-", "3", "-", "p", "r", "o", "-", "i", "m", "a", "g", "e", "-", "p", "r", "e", "v", "i", "e", "w">>

GEMINI_3_PRO_IMAGE == <<"g", "e", "m", "i", "n", "i", "-", "3", "-", "p", "r", "o", "-", "i", "m", "a", "g", "e">>

MODELS_WITH_FULL_IMAGE_CONFIG == {GEMINI_3_PRO_IMAGE_PREVIEW, GEMINI_3_PRO_IMAGE}

GEMINI_25_FLASH_IMAGE == <<"g", "e", "m", "i", "n", "i", "-", "2", ".", "5", "-", "f", "l", "a", "s", "h", "-", "i", "m", "a", "g", "e">>

MODELS_WITH_ASPECT_RATIO_ONLY == {GEMINI_25_FLASH_IMAGE}

\* Model names of the .env file: the listed ones, listed ones with a path
\* prefix or a version suffix, other models, and the empty name.
ModelsPrefix == <<"m", "o", "d", "e", "l", "s", "/">>

VersionSuffix == <<"-", "0", "0", "1">>

GEMINI_20_FLASH == <<"g", "e", "m", "i", "n", "i", "-", "2", ".", "0", "-", "f", "l", "a", "s", "h">>

IMAGEN_3 == <<"i", "m", "a", "g", "e", "n", "-", "3">>

ModelIds ==
  {GEMINI_3_PRO_IMAGE_PREVIEW, GEMINI_3_PRO_IMAGE, GEMINI_25_FLASH_IMAGE,
   ModelsPrefix \o GEMINI_3_PRO_IMAGE, ModelsPrefix \o GEMINI_25_FLASH_IMAGE,
   GEMINI_25_FLASH_IMAGE \o VersionSuffix,
   GEMINI_20_FLASH, IMAGEN_3, <<>>}

\* String.prototype.includes
Includes(str, m) == \E k \in 1..(Len(str) - Len(m) + 1) : SubSeq(str, k, k + Len(m) - 1) = m

\* types.ts
VALID_ASPECT_RATIOS ==
  {<<"1", ":", "1">>,
   <<"2", ":", "3">>,
   <<"3", ":", "2">>,
   <<"3", ":", "4">>,
   <<"4", ":", "3">>,
   <<"4", ":", "5">>,
   <<"5", ":", "4">>,
   <<"9", ":", "1", "6">>,
   <<"1", "6", ":", "9">>,
   <<"2", "1", ":", "9">>}

VALID_IMAGE_SIZES == {<<"1", "K">>, <<"2", "K">>, <<"4", "K">>}

\* An imageConfig that carries the size for every recognised model.
BuildImageConfigWithSize(model, aspectRatio, imageSize) ==
  IF \E m \in MODELS_WITH_FULL_IMAGE_CONFIG \cup MODELS_WITH_ASPECT_RATIO_ONLY : Includes(model, m)
  THEN [aspectRatio |-> aspectRatio, imageSize |-> imageSize]
  ELSE [absent |-> TRUE]

\* generateImage, the imageConfig it builds: a record, or absent.
Absent == [absent |-> TRUE]

BuildImageConfig(model, aspectRatio, imageSize) ==
  LET supportsFullImageConfig == \E m \in MODELS_WITH_FULL_IMAGE_CONFIG : Includes(model, m)
      supportsAspectRatioOnly == \E m \in MODELS_WITH_ASPECT_RATIO_ONLY : Includes(model, m)
  IN IF supportsFullImageConfig THEN [aspectRatio |-> aspectRatio, imageSize |-> imageSize]
     ELSE IF supportsAspectRatioOnly THEN [aspectRatio |-> aspectRatio]
     ELSE Absent

\* generateImage, generationConfig of the request body: imageConfig is
\* spread in only when it was built.
GenerationConfig(imageConfig) ==
  IF imageConfig = Absent
  THEN [responseModalities |-> <<"TEXT", "IMAGE">>]
  ELSE [responseModalities |-> <<"TEXT", "IMAGE">>, imageConfig |-> imageConfig]

\* Parts of a candidate: text, or inline data of some MIME type.
TextPart == [kind |-> "text", mimeType |-> "", data |-> ""]

InlinePart(mimeType, data) == [kind |-> "inline", mimeType |-> mimeType, data |-> data]

Parts == {TextPart, InlinePart("image/png", "AAAA"), InlinePart("image/jpeg", "BBBB")}

\* All sequences over S of length at most n.
SeqsUpTo(S, n) == UNION {[1..k -> S] : k \in 0..n}

\* Candidates: null, without content, with content but no parts, or with
\* parts.
Candidates ==
  {[kind |-> k, parts |-> <<>>] : k \in {"null", "nocontent", "noparts"}}
    \cup {[kind |-> "parts", parts |-> ps] : ps \in SeqsUpTo(Parts, MaxParts)}

NoErrorObject == [present |-> FALSE, message |-> ""]

ErrorObject(message) == [present |-> TRUE, message |-> message]

ErrorObjects == {NoErrorObject, ErrorObject("Invalid request"), ErrorObject("Quota exceeded")}

\* What requestUrl settles with: a JSON body, a rejection with an Error, or
\* a rejection with a value that is no Error.
JsonResponse(error, hasCandidates, candidates) ==
  [transport |-> "ok", error |-> error, hasCandidates |-> hasCandidates, candidates |-> candidates]

Rejection(transport) == [JsonResponse(NoErrorObject, FALSE, <<>>) EXCEPT !.transport = transport]

Responses ==
  {JsonResponse(e, TRUE, cs) : e \in ErrorObjects, cs \in SeqsUpTo(Candidates, MaxCandidates)}
    \cup {JsonResponse(e, FALSE, <<>>) : e \in ErrorObjects}
    \cup {Rejection("error"), Rejection("thrown")}

NoImage == [kind |-> "none", mimeType |-> "", data |-> "", message |-> <<>>]

GeneratedImage(mimeType, data) == [kind |-> "image", mimeType |-> mimeType, data |-> data, message |-> <<>>]

\* new Error(message); the message is the sequence of the pieces it is
\* put together from.
ClientError(message) == [kind |-> "error", mimeType |-> "", data |-> "", message |-> message]

RECURSIVE FirstInlinePart(_)
\* extractImageFromResponse, the loop over the parts.
FirstInlinePart(parts) ==
  IF parts = <<>> THEN NoImage
  ELSE IF Head(parts).kind = "inline" THEN GeneratedImage(Head(parts).mimeType, Head(parts).data)
  ELSE FirstInlinePart(Tail(parts))

\* An extraction that goes on to the later candidates.
extractImageFromAnyCandidate(response) ==
  LET withImage == {k \in 1..Len(response.candidates) :
                      /\ response.candidates[k].kind = "parts"
                      /\ FirstInlinePart(response.candidates[k].parts) # NoImage}
  IN IF ~response.hasCandidates \/ withImage = {} THEN NoImage
     ELSE FirstInlinePart(response.candidates[CHOOSE k \in withImage : \A l \in withImage : k <= l].parts)

extractImageFromResponse(response) ==
  IF ~response.hasCandidates \/ Len(response.candidates) = 0 THEN NoImage
  ELSE LET firstCandidate == response.candidates[1]
       IN IF firstCandidate.kind \in {"null", "nocontent"} THEN NoImage
          ELSE IF firstCandidate.kind = "noparts" THEN NoImage
          ELSE FirstInlinePart(firstCandidate.parts)

\* A generateImage that looks for an image before it looks for the error.
GenerateImageSettleImageFirst(response) ==
  CASE response.transport = "error" -> ClientError(<<"Request failed">>)
    [] response.transport = "thrown" -> ClientError(<<"Unknown error occurred during image generation">>)
    [] OTHER ->
         IF extractImageFromResponse(response) # NoImage THEN extractImageFromResponse(response)
         ELSE IF response.error.present
         THEN ClientError(<<"Gemini API error: ", response.error.message>>)
         ELSE ClientError(<<"No image was generated. The API may have returned text only.">>)

\* generateImage from the settling of requestUrl on: what it returns or
\* throws.
GenerateImageSettle(response) ==
  CASE response.transport = "error" -> ClientError(<<"Request failed">>)
    [] response.transport = "thrown" -> ClientError(<<"Unknown error occurred during image generation">>)
    [] OTHER ->
         IF response.error.present
         THEN ClientError(<<"Gemini API error: ", response.error.message>>)
         ELSE LET image == extractImageFromResponse(response)
              IN IF image = NoImage
                 THEN ClientError(<<"No image was generated. The API may have returned text only.">>)
                 ELSE image

\* The request generateImage hands to requestUrl.
ClientRequest(model, aspectRatio, imageSize) ==
  [model |-> model, generationConfig |-> GenerationConfig(BuildImageConfig(model, aspectRatio, imageSize))]

NoRequest == [none |-> TRUE]

NoResponse == Rejection("none")

ClientIdle ==
  [pc |-> "idle", model |-> <<>>, aspectRatio |-> <<>>, imageSize |-> <<>>,
   request |-> NoRequest, calls |-> 0, requests |-> 0, response |-> NoResponse,
   outcome |-> NoImage]

\* ------------------------------------------------- utils/prompt-parser
\* What \s matches and trim() removes.
WhiteSpace == {" ", "\t", "\n", "\r"}

Trim(s) == StripRight(StripLeft(s, WhiteSpace), WhiteSpace)

DEFAULTS == [aspectRatio |-> <<"1", ":", "1">>, imageSize |-> <<"1", "K">>]

Dashes == <<"-", "-", "-">>

ASPECT_RATIO_KEY == <<"a", "s", "p", "e", "c", "t", "_", "r", "a", "t", "i", "o">>

IMAGE_SIZE_KEY == <<"i", "m", "a", "g", "e", "_", "s", "i", "z", "e">>

\* content.match(FRONTMATTER_REGEX), /^---\s*\n([\s\S]*?)\n---\s*\n?/ : the
\* greedy \s* ends at the last line feed i that lets the rest match, the
\* lazy group ends before the first "\n---" at j, and the match runs on
\* over the white space after the closing dashes.
FrontmatterMatch(content) ==
  LET n == Len(content)
      Closing(i) == {j \in (i + 1)..(n - 3) : content[j] = "\n" /\ SubSeq(content, j + 1, j + 3) = Dashes}
      opening == {i \in 4..n : /\ content[i] = "\n"
                               /\ \A k \in 4..(i - 1) : content[k] \in WhiteSpace
                               /\ Closing(i) # {}}
  IN IF n < 3 \/ SubSeq(content, 1, 3) # Dashes \/ opening = {}
     THEN [matched |-> FALSE, group |-> <<>>, length |-> 0]
     ELSE LET i == CHOOSE x \in opening : \A y \in opening : y <= x
              j == CHOOSE x \in Closing(i) : \A y \in Closing(i) : x <= y
              rest == SubSeq(content, j + 4, n)
          IN [matched |-> TRUE, group |-> SubSeq(content, i + 1, j - 1),
              length |-> j + 3 + (Len(rest) - Len(StripLeft(rest, WhiteSpace)))]

RECURSIVE Split(_, _)
\* str.split(sep) for a separator of one character
Split(str, sep) ==
  LET at == {k \in 1..Len(str) : str[k] = sep}
  IN IF at = {} THEN <<str>>
     ELSE LET k == CHOOSE x \in at : \A y \in at : x <= y
          IN <<SubSeq(str, 1, k - 1)>> \o Split(SubSeq(str, k + 1, Len(str)), sep)

\* str.indexOf(c), counted from 1; 0 when c is not in str
CharIndex(str, c) ==
  LET at == {k \in 1..Len(str) : str[k] = c}
  IN IF at = {} THEN 0 ELSE CHOOSE x \in at : \A y \in at : x <= y

\* A line parser that cuts the line at its last colon.
ParseYamlLineAtLastColon(line) ==
  LET trimmed == Trim(line)
      at == {k \in 1..Len(trimmed) : trimmed[k] = ":"}
      colonIndex == IF at = {} THEN 0 ELSE CHOOSE x \in at : \A y \in at : y <= x
      key == Trim(SubSeq(trimmed, 1, colonIndex - 1))
      value == Trim(SubSeq(trimmed, colonIndex + 1, Len(trimmed)))
      quoted == \E q \in {"\"", "'"} : value # <<>> /\ Head(value) = q /\ value[Len(value)] = q
  IN IF trimmed = <<>> \/ Head(trimmed) = "#" \/ colonIndex = 0
     THEN [pair |-> FALSE, key |-> <<>>, value |-> <<>>]
     ELSE [pair |-> TRUE, key |-> key,
           value |-> IF quoted THEN SubSeq(value, 2, Len(value) - 1) ELSE value]

\* parseSimpleYaml, one line: the pair it adds to result, or none.
ParseYamlLine(line) ==
  LET trimmed == Trim(line)
      colonIndex == CharIndex(trimmed, ":")
      key == Trim(SubSeq(trimmed, 1, colonIndex - 1))
      value == Trim(SubSeq(trimmed, colonIndex + 1, Len(trimmed)))
      quoted == \E q \in {"\"", "'"} : value # <<>> /\ Head(value) = q /\ value[Len(value)] = q
  IN IF trimmed = <<>> \/ Head(trimmed) = "#" \/ colonIndex = 0
     THEN [pair |-> FALSE, key |-> <<>>, value |-> <<>>]
     ELSE [pair |-> TRUE, key |-> key,
           value |-> IF quoted THEN SubSeq(value, 2, Len(value) - 1) ELSE value]

RECURSIVE ParseYamlLines(_, _)
\* parseSimpleYaml, the loop: a later line with the same key overwrites.
ParseYamlLines(lines, result) ==
  IF lines = <<>> THEN result
  ELSE LET p == ParseYamlLine(Head(lines))
       IN ParseYamlLines(Tail(lines), IF p.pair THEN (p.key :> p.value) @@ result ELSE result)

parseSimpleYaml(yaml) == ParseYamlLines(Split(yaml, "\n"), <<>>)

\* frontmatter[key], and '' (as falsy as undefined) when the key is absent
Lookup(frontmatter, key) == IF key \in DOMAIN frontmatter THEN frontmatter[key] ELSE <<>>

parsePromptFile(content) ==
  LET frontmatterMatch == FrontmatterMatch(content)
      frontmatter == parseSimpleYaml(frontmatterMatch.group)
      ar == Lookup(frontmatter, ASPECT_RATIO_KEY)
      is == Lookup(frontmatter, IMAGE_SIZE_KEY)
  IN IF frontmatterMatch.matched /\ frontmatterMatch.group # <<>>
     THEN [aspectRatio |-> IF ar # <<>> /\ ar \in VALID_ASPECT_RATIOS THEN ar ELSE DEFAULTS.aspectRatio,
           imageSize |-> IF is # <<>> /\ is \in VALID_IMAGE_SIZES THEN is ELSE DEFAULTS.imageSize,
           warnings |-> (IF ar # <<>> /\ ar \notin VALID_ASPECT_RATIOS THEN 1 ELSE 0)
                          + (IF is # <<>> /\ is \notin VALID_IMAGE_SIZES THEN 1 ELSE 0),
           content |-> Trim(SubSeq(content, frontmatterMatch.length + 1, Len(content)))]
     ELSE [aspectRatio |-> DEFAULTS.aspectRatio, imageSize |-> DEFAULTS.imageSize,
           warnings |-> 0, content |-> content]

\* Template files as their authors write them: with or without a header,
\* each key absent or given with a value, quoted or not, in several
\* layouts.
NoEntry == [present |-> FALSE, value |-> <<>>, quote |-> ""]

Entries(values) ==
  {NoEntry} \cup {[present |-> TRUE, value |-> v, quote |-> q] : v \in values, q \in {"", "\"", "'"}}

AspectRatioValues == VALID_ASPECT_RATIOS \cup {<<"7", ":", "5">>, <<"1", "6", "x", "9">>, <<>>}

ImageSizeValues == VALID_IMAGE_SIZES \cup {<<"8", "K">>, <<>>}

Layouts == {"plain", "tight", "padded", "crlf", "comment", "sizefirst"}

TemplateFiles ==
  [header : BOOLEAN, ar : Entries(AspectRatioValues), size : Entries(ImageSizeValues), layout : Layouts]

Body == <<"A", " ", "c", "a", "t">> \o <<"\n">>

\* The line of an entry in a layout.
EntryLine(key, e, layout) ==
  LET q == IF e.quote = "" THEN <<>> ELSE <<e.quote>>
      text == key \o <<":">> \o (IF layout = "tight" THEN <<>> ELSE <<" ">>) \o q \o e.value \o q
  IN IF layout = "padded" THEN <<" ", " ">> \o text \o <<" ", "\t">> ELSE text

RECURSIVE Join(_, _)
Join(lines, eol) ==
  IF lines = <<>> THEN <<>> ELSE Head(lines) \o eol \o Join(Tail(lines), eol)

\* The text of a template file.
FileText(f) ==
  LET eol == IF f.layout = "crlf" THEN <<"\r", "\n">> ELSE <<"\n">>
      arLine == IF f.ar.present THEN <<EntryLine(ASPECT_RATIO_KEY, f.ar, f.layout)>> ELSE <<>>
      sizeLine == IF f.size.present THEN <<EntryLine(IMAGE_SIZE_KEY, f.size, f.layout)>> ELSE <<>>
      entries == IF f.layout = "sizefirst" THEN sizeLine \o arLine ELSE arLine \o sizeLine
      lines == (IF f.layout = "comment" THEN <<<<"#", " ", "n">>>> ELSE <<>>)
                 \o (IF f.layout = "padded" THEN <<<<>>>> ELSE <<>>)
                 \o entries
  IN IF f.header
     THEN Join(<<Dashes>> \o lines \o <<Dashes>>, eol) \o Body
     ELSE Join(lines, eol) \o Body

TemplateIdle(f) == [pc |-> "read", file |-> f, content |-> FileText(f), parsed |-> DEFAULTS, warnings |-> 0]

\* ---------------------------------------------------------- utils/logger
\* [A-Za-z0-9_+/=\-], the characters of a token in sanitize's pattern.
TokenChars ==
  {"A", "B", "C", "D", "E", "F", "G", "H", "I", "J", "K", "L", "M", "N", "O", "P", "Q", "R", "S", "T", "U", "V", "W", "X", "Y", "Z"}
    \cup {"a", "b", "c", "d", "e", "f", "g", "h", "i", "j", "k", "l", "m", "n", "o", "p", "q", "r", "s", "t", "u", "v", "w", "x", "y", "z"}
    \cup {"0", "1", "2", "3", "4", "5", "6", "7", "8", "9"}
    \cup {"_", "+", "/", "=", "-"}

\* {20,}
MinTokenLength == 20

Stars == <<"*", "*", "*", "*">>

\* token.slice(0, 4) + '****' + token.slice(-4), for a token of 4 characters or more
MaskToken(token) == SubSeq(token, 1, 4) \o Stars \o SubSeq(token, Len(token) - 3, Len(token))

\* [A-Za-z0-9_+/=\-]{n,} is greedy: the position after the run of token
\* characters that starts at i.
RunEnd(text, i) ==
  LET stops == {k \in i..Len(text) : text[k] \notin TokenChars}
  IN IF stops = {} THEN Len(text) + 1 ELSE CHOOSE k \in stops : \A j \in stops : k <= j

\* (?=\s|$) at position e
LookaheadEnd(text, e) == e > Len(text) \/ text[e] \in WhiteSpace

\* The token matched when the prefix (^|\s) ends before position from, or
\* <<>>: a shorter token than the greedy one is followed by a token
\* character, so backtracking finds nothing.
TokenAt(text, from, n) ==
  LET e == RunEnd(text, from)
  IN IF e - from >= n /\ LookaheadEnd(text, e) THEN SubSeq(text, from, e - 1) ELSE <<>>

\* The pattern (^|\s)([A-Za-z0-9_+/=\-]{n,})(?=\s|$) matches at position p:
\* the alternative ^ is tried first, then \s.
MatchAt(text, p, n) ==
  IF p = 1 /\ TokenAt(text, 1, n) # <<>> THEN [prefix |-> <<>>, token |-> TokenAt(text, 1, n)]
  ELSE IF text[p] \in WhiteSpace /\ TokenAt(text, p + 1, n) # <<>>
       THEN [prefix |-> <<text[p]>>, token |-> TokenAt(text, p + 1, n)]
       ELSE [prefix |-> <<>>, token |-> <<>>]

RECURSIVE ReplaceFrom(_, _, _)
\* text.replace(pattern, (_match, prefix, token) => ...) with the g flag,
\* from position i on: the text up to the leftmost match is kept, the match
\* is replaced, and the search goes on behind the token.
ReplaceFrom(text, i, n) ==
  LET matches == {p \in i..Len(text) : MatchAt(text, p, n).token # <<>>}
  IN IF matches = {} THEN SubSeq(text, i, Len(text))
     ELSE LET p == CHOOSE q \in matches : \A r \in matches : q <= r
              m == MatchAt(text, p, n)
          IN SubSeq(text, i, p - 1) \o m.prefix \o MaskToken(m.token)
               \o ReplaceFrom(text, p + Len(m.prefix) + Len(m.token), n)

\* A sanitize whose pattern asks for more than 20 characters.
sanitizeLongTokensOnly(text) == ReplaceFrom(text, 1, MinTokenLength + 1)

\* Logger.sanitize
sanitize(text) == ReplaceFrom(text, 1, MinTokenLength)

\* Arguments of a log call: JS values.
NullArg == [type |-> "null", value |-> <<>>, fields |-> <<>>]
UndefinedArg == [type |-> "undefined", value |-> <<>>, fields |-> <<>>]
StringArg(s) == [type |-> "string", value |-> s, fields |-> <<>>]
\* value: the digits String(n) gives
NumberArg(digits) == [type |-> "number", value |-> digits, fields |-> <<>>]
SymbolArg == [type |-> "symbol", value |-> <<>>, fields |-> <<>>]
\* An object of own properties, each a string or a number.
ObjectArg(fields) == [type |-> "object", value |-> <<>>, fields |-> fields]
\* An object JSON.stringify throws on (it refers to itself).
CircularArg == [type |-> "circular", value |-> <<>>, fields |-> <<>>]
Field(name, value) == [name |-> name, value |-> value]

RECURSIVE JsonEscape(_)
\* The characters of a string between the quotes of its JSON text.
JsonEscape(s) ==
  IF s = <<>> THEN <<>>
  ELSE LET c == Head(s)
       IN (CASE c = "\"" -> <<"\\", "\"">>
             [] c = "\\" -> <<"\\", "\\">>
             [] c = "\n" -> <<"\\", "n">>
             [] c = "\r" -> <<"\\", "r">>
             [] c = "\t" -> <<"\\", "t">>
             [] OTHER -> <<c>>) \o JsonEscape(Tail(s))

JsonQuote(s) == <<"\"">> \o JsonEscape(s) \o <<"\"">>

JsonValue(v) == IF v.type = "string" THEN JsonQuote(v.value) ELSE v.value

RECURSIVE JsonMembers(_)
JsonMembers(fields) ==
  IF fields = <<>> THEN <<>>
  ELSE JsonQuote(Head(fields).name) \o <<":">> \o JsonValue(Head(fields).value)
         \o (IF Len(fields) > 1 THEN <<",">> ELSE <<>>) \o JsonMembers(Tail(fields))

\* JSON.stringify of an object
JsonStringify(fields) == <<"{">> \o JsonMembers(fields) \o <<"}">>

\* The callback of args.map in Logger.log
FormatArg(arg) ==
  CASE arg.type = "null" -> <<"n", "u", "l", "l">>
    [] arg.type = "undefined" -> <<"u", "n", "d", "e", "f", "i", "n", "e", "d">>
    [] arg.type = "object" -> JsonStringify(arg.fields)
    [] arg.type = "circular" -> <<"[", "o", "b", "j", "e", "c", "t", "]">>
    [] arg.type = "string" -> arg.value
    [] arg.type = "number" -> arg.value
    [] OTHER -> <<"s", "y", "m", "b", "o", "l">>

RECURSIVE JoinArgs(_)
\* args.map(...).join(' ')
JoinArgs(args) ==
  IF args = <<>> THEN <<>>
  ELSE FormatArg(Head(args)) \o (IF Len(args) > 1 THEN <<" ">> ELSE <<>>) \o JoinArgs(Tail(args))

\* formattedArgs
FormattedArgs(args) == IF Len(args) > 0 THEN <<" ">> \o JoinArgs(args) ELSE <<>>

\* `${message}${formattedArgs}`
LogContent(message, args) == message \o FormattedArgs(args)

\* String(n).padStart(3, '0') for 0 <= n <= 999
Pad3(n) == <<Digit(n \div 100), Digit((n \div 10) % 10), Digit(n % 10)>>

\* new Date().toISOString() at clock t, the time zone being UTC.
toISOString(t) ==
  LET total == Epoch.second + t.s
  IN Year4(Epoch.year) \o <<"-">> \o Pad2(Epoch.month) \o <<"-">> \o Pad2(Epoch.day) \o <<"T">>
       \o Pad2(Epoch.hour) \o <<":">> \o Pad2(Epoch.minute + (total \div 60)) \o <<":">> \o Pad2(total % 60)
       \o <<".">> \o Pad3(t.ms) \o <<"Z">>

LevelText(level) ==
  CASE level = "ERROR" -> <<"E", "R", "R", "O", "R">>
    [] level = "WARN" -> <<"W", "A", "R", "N">>
    [] level = "INFO" -> <<"I", "N", "F", "O">>
    [] OTHER -> <<"D", "E", "B", "U", "G">>

\* logLine
LogLine(timestamp, level, safeContent) ==
  <<"[">> \o timestamp \o <<"]", " ", "[">> \o LevelText(level) \o <<"]", " ">> \o safeContent \o <<"\n">>

\* consoleMessage
ConsoleMessage(safeContent) == <<"[", "g", "e", "n", "i", "m", "a", "g", "e", "-", "i", "n", "s", "e", "r", "t", "e", "r", "]", " ">> \o safeContent

\* The console method Logger.log picks.
ConsoleMethod(level) ==
  IF level = "ERROR" THEN "error" ELSE IF level = "WARN" THEN "warn" ELSE "debug"

Levels == {"ERROR", "WARN", "INFO", "DEBUG"}

\* What GEMINI_API_KEY holds.
ApiKey39 == <<"A", "I", "z", "a", "S", "y", "A", "1", "b", "2", "C", "3", "d", "4", "E", "5", "f", "6", "G", "7", "h", "8", "I", "9", "j", "0", "K", "_", "l", "M", "n", "O", "p", "Q", "r", "S", "t", "U", "v">>
ApiKey20 == <<"A", "I", "z", "a", "S", "y", "A", "1", "b", "2", "C", "3", "d", "4", "E", "5", "f", "6", "G", "7">>
ApiKeys == {ApiKey39, ApiKey20}

\* A request id, too short for the pattern.
RequestId19 == <<"r", "e", "q", "-", "0", "1", "2", "3", "4", "5", "6", "7", "8", "9", "a", "b", "c", "d", "e">>

LogTokens == ApiKeys \cup {RequestId19}

\* The message of a log call: a literal, or a template literal with a path.
LogMessages ==
  { <<"G", "e", "m", "i", "n", "i", " ", "A", "P", "I", " ", "e", "r", "r", "o", "r">>,
    <<"I", "m", "a", "g", "e", " ", "s", "a", "v", "e", "d", " ", "t", "o", ":", " ", "a", "s", "s", "e", "t", "s", "/", "g", "e", "n", "e", "r", "a", "t", "e", "d", "/", "2", "0", "2", "6", "0", "2", "0", "7", "1", "4", "3", "0", "5", "2", "_", "n", "o", "t", "e", ".", "p", "n", "g">>,
    <<"C", "r", "e", "a", "t", "e", "d", " ", "o", "u", "t", "p", "u", "t", " ", "d", "i", "r", "e", "c", "t", "o", "r", "y", ":", " ", "a", "s", "s", "e", "t", "s", "/", "g", "e", "n", "e", "r", "a", "t", "e", "d", "-", "i", "m", "a", "g", "e", "s">> }

\* Arguments with the token t: alone, at the end of a sentence, before a
\* full stop, as the whole of an object's property (the provider's message
\* in 'Gemini API error'), and as a word of it.
ArgsWith(t) ==
  { StringArg(t),
    StringArg(<<"k", "e", "y", " ">> \o t),
    StringArg(t \o <<".">>),
    ObjectArg(<<Field(<<"m", "e", "s", "s", "a", "g", "e">>, StringArg(t))>>),
    ObjectArg(<<Field(<<"c", "o", "d", "e">>, NumberArg(<<"4", "0", "0">>)),
                Field(<<"m", "e", "s", "s", "a", "g", "e">>, StringArg(<<"k", "e", "y", " ">> \o t \o <<" ", "b", "a", "d">>))>>) }

LogArgs ==
  UNION {ArgsWith(t) : t \in LogTokens}
    \cup {NullArg, UndefinedArg, NumberArg(<<"4", "0", "0">>), SymbolArg, CircularArg}

\* Nothing written to the console or the file.
NotWritten == [written |-> FALSE, method |-> "", text |-> <<>>]
Written(method, text) == [written |-> TRUE, method |-> method, text |-> text]

\* The Logger after its constructor: enabled is false when the vault has no
\* base path.  apiKey is the key of the .env file, which the logger does
\* not hold.
LoggerIdle(apiKey, enabled) ==
  [pc |-> "idle", apiKey |-> apiKey, enabled |-> enabled, level |-> "", message |-> <<>>, args |-> <<>>,
   console |-> NotWritten, file |-> NotWritten]

\* ------------------------------------------------- main.ts: the editor
\* Positions of the line breaks of a text.
LineBreaks(text) == {p \in 1..Len(text) : ~IsMarker(text[p]) /\ text[p].c = "\n"}

\* Offset of the first character of a line (lines count from 0).
LineStart(text, line) ==
  IF line = 0 THEN 0
  ELSE CHOOSE p \in LineBreaks(text) : Cardinality({q \in LineBreaks(text) : q <= p}) = line

\* editor.lastLine()
lastLine(text) == Cardinality(LineBreaks(text))

\* editor.getLine(line)
getLine(text, line) ==
  LET later == {p \in LineBreaks(text) : p > LineStart(text, line)}
      end == IF later = {} THEN Len(text) ELSE (CHOOSE p \in later : \A q \in later : p <= q) - 1
  IN SubSeq(text, LineStart(text, line) + 1, end)

\* editor.getCursor('to') for a selection that ends at offset to
getCursorTo(text, to) ==
  LET line == Cardinality({q \in LineBreaks(text) : q <= to})
  IN [line |-> line, ch |-> to - LineStart(text, line)]

\* editor.replaceRange(marker, position)
replaceRange(text, marker, position) ==
  InsertAt(text, LineStart(text, position.line) + position.ch, <<marker>>)

\* An insert position at the start of the last line.
EndOfDocumentAtLineStart(text) == [line |-> lastLine(text), ch |-> 0]

\* insertPosition without a selection: { line: lastLine, ch: lastLineLength }
EndOfDocument(text) == [line |-> lastLine(text), ch |-> Len(getLine(text, lastLine(text)))]

\* A test for text that does not trim it.
HasNoTextUntrimmed(sourceText) == sourceText = <<>>

\* !sourceText.trim()
HasNoText(sourceText) == TrimIsEmpty(sourceText)

\* The notes of the vault, and a view that has no file.
NoteIds == {"a", "b"}
NoFile == "nofile"
Views == NoteIds \cup {NoFile}

\* Contents of note a when the plugin is loaded.
DeskTexts ==
  { <<>>,
    <<" ", "\n">>,
    <<"a", " ">>,
    <<"a", "\n", "b", "c">>,
    <<"a", "\n">> }

\* The workspace before the command runs: note a is the active view.
DeskIdle(text) ==
  [texts |-> [v \in Views |-> IF v = "a" THEN Text(text, 0) ELSE Text(<<"n">>, 0)],
   exists |-> NoteIds, active |-> "a", typed |-> 0, commands |-> 0,
   sel |-> [from |-> 0, to |-> 0], sourceText |-> <<>>,
   pc |-> "idle", file |-> NoFile, marker |-> <<>>, replacementText |-> EmptyString,
   generateCalls |-> 0, notices |-> 0, log |-> ""]

\* ------------------------------------ the service and what it reads
\* The credential files outside the vault: the path, and what the file at
\* the path holds (its GEMINI_API_KEY and GEMINI_MODEL, "" for a key that
\* is not set), or that there is no file.
SvcEnvPaths == {"e1", "e2"}
NoEnvFile == [exists |-> FALSE, key |-> "", model |-> ""]
EnvFile(key, model) == [exists |-> TRUE, key |-> key, model |-> model]
EnvContents == {NoEnvFile, EnvFile("k1", "m1"), EnvFile("k2", "m2"), EnvFile("", "m1")}

\* The prompt folders of the vault: the path, and the .md files in the
\* folder, or that there is no folder.
SvcPromptDirs == {"d1", "d2"}
NoFolder == {"<none>"}
PromptNames == {"t1", "t2"}
FolderContents == {NoFolder} \cup SUBSET PromptNames

NoEnvConfig == [geminiApiKey |-> "", geminiModel |-> ""]
NoSvcRequest == [key |-> "", model |-> "", prompt |-> ""]
NoCall == [envConfig |-> NoEnvConfig, promptFiles |-> {}, request |-> NoSvcRequest]

\* The service between two calls: the settings object, the files, and
\* nothing of a call; last is what the call before held when it returned,
\* which the service does not keep.
SvcIdle ==
  [settings |-> [envFilePath |-> "e1", promptDirectory |-> "d1"],
   envFiles |-> [p \in SvcEnvPaths |-> IF p = "e1" THEN EnvFile("k1", "m1") ELSE EnvFile("k2", "m2")],
   promptFolders |-> [d \in SvcPromptDirs |-> IF d = "d1" THEN {"t1"} ELSE {"t2"}],
   pc |-> "idle", envConfig |-> NoEnvConfig, folder |-> "", promptFiles |-> {},
   request |-> NoSvcRequest, ret |-> "pending", err |-> "",
   last |-> NoCall, calls |-> 0, changes |-> 0]

\* ------------------------------------------------------------------ state
VARIABLES
  now,        \* the clock: [s |-> seconds since Epoch, ms |-> milliseconds within the second]
  settings,   \* the settings object shared by the plugin and the service
  doc,        \* current content of the note
  fileExists, \* the note is still in the vault under the TFile captured at submit
  noteName,   \* file.basename
  folders,    \* folders of the vault
  files,      \* asset files of the vault
  edits,      \* number of user edits so far
  inv,        \* the calls of handleGenerateImage
  client,     \* a call of ImageGeneratorService.generateImage and its GeminiClient
  template,   \* a template file and what parsePromptFile makes of it
  logger,     \* the Logger, a call of its log method and what the call wrote
  desk,       \* the notes of the vault, the active view and one run of the command
  svc         \* the service, the credential files, the prompt folders and one call of generate

vars == <<now, settings, doc, fileExists, noteName, folders, files, edits, inv, client, template, logger, desk, svc>>

\* The plugin, its note and its vault.
plugin == <<now, settings, doc, fileExists, noteName, folders, files, edits, inv>>

\* The parts looked at on their own.
units == <<client, template, logger, desk, svc>>

\* No template file is being read.
NoTemplate == [TemplateIdle([header |-> FALSE, ar |-> NoEntry, size |-> NoEntry, layout |-> "plain"]) EXCEPT !.pc = "none"]

Err(message) == [isError |-> TRUE, message |-> message]

NoIO == [env |-> 0, catalog |-> 0, selector |-> 0, provider |-> 0, mkdir |-> 0, write |-> 0]

Idle ==
  [pc |-> "idle", marker |-> <<>>, tmpl |-> "", mime |-> "", dir |-> <<>>,
   path |-> <<>>, ret |-> "pending", err |-> "", result |-> EmptyString,
   replacementText |-> EmptyString, notices |-> <<>>, io |-> NoIO, log |-> <<>>,
   rejects |-> FALSE, fault |-> FALSE, afterFailure |-> FALSE, modal |-> "none",
   dirAtSubmit |-> <<>>]

\* An invocation that has returned keeps how generate settled and what its
\* last step logged; its locals are gone.
Finished(r, pc, entry) == [Idle EXCEPT !.pc = pc, !.ret = r.ret, !.log = <<entry>>]

Init ==
  /\ now = [s |-> 0, ms |-> 0]
  /\ settings \in [envFilePath : EnvPaths, promptDirectory : PromptDirs, imageOutputDirectory : OutputDirs]
  /\ doc \in {Text(d, 0) : d \in InitDocs}
  /\ fileExists = TRUE
  /\ noteName \in NoteNames
  /\ folders = {}
  /\ files = {}
  /\ edits = 0
  /\ inv = [i \in Inv |-> Idle]
  /\ client = ClientIdle
  /\ template = NoTemplate
  /\ logger = LoggerIdle(ApiKey39, TRUE)
  /\ desk = DeskIdle(<<>>)
  /\ svc = SvcIdle

\* Date.now()
DateNow == now.s * 1000 + now.ms

\* ------------------------------------------------- generate: ways to settle
\* A catch block that reports every error as unknown.
MessageOfUnknown(error) == "Unknown error"

\* error instanceof Error ? error.message : 'Unknown error'
MessageOf(error) == IF error.isError THEN error.message ELSE "Unknown error"

\* generate, catch block: log, failure Notice, re-throw.
GenerateCatch(r, error) ==
  [r EXCEPT !.notices = Append(@, [kind |-> "failure", text |-> MessageOf(error)]),
            !.ret = "throw", !.err = error.message]

\* A cancellation handled as any other error of generate.
GenerateCancelledAsFailure(r) ==
  [r EXCEPT !.notices = Append(@, [kind |-> "failure", text |-> "Cancelled"]),
            !.ret = "throw", !.err = "Cancelled"]

\* generate, cancelled selection: return null.
GenerateCancelled(r) == [r EXCEPT !.ret = "null"]

\* generate, last lines: success Notice, return { imageLink, promptName }.
GenerateReturn(r, imagePath) ==
  [r EXCEPT !.notices = Append(@, [kind |-> "success", text |-> r.tmpl]),
            !.ret = "object", !.result = ResultObject(ImageLink(imagePath), r.tmpl)]

\* executeGeneration once generate has settled: the try/catch around the
\* await, then the call of vault.process in the finally block.  The locals
\* of generate are gone.
ExecuteSettled(r) ==
  [r EXCEPT !.replacementText = IF r.ret = "object" /\ Truthy(r.result) THEN r.result ELSE EmptyString,
            !.log = IF r.ret = "throw" THEN Append(@, "error:generation-failed") ELSE @,
            !.tmpl = "", !.mime = "", !.dir = <<>>, !.path = <<>>,
            !.pc = "resolving"]

\* A validation that looks at the credential path only.
validateSettingsEnvOnly(st) ==
  IF st.envFilePath = "" THEN ".env file path is not configured. Please check plugin settings."
  ELSE ""

\* validateSettings: the error it throws, or "" when the settings pass.
validateSettings(st) ==
  IF st.envFilePath = "" THEN ".env file path is not configured. Please check plugin settings."
  ELSE IF st.promptDirectory = "" THEN "Prompt directory is not configured. Please check plugin settings."
  ELSE ""

\* loadEnvFile against a credential file in state f: the error, or "".
EnvStates == {"ok", "missing", "nokey"}

loadEnvFile(envFilePath, f) ==
  IF envFilePath = "" THEN ".env file path is not configured"
  ELSE CASE f = "missing" -> ".env file not found"
         [] f = "nokey" -> "GEMINI_API_KEY is not set in .env file"
         [] OTHER -> ""

\* getPromptFiles up to its first await, against a prompt directory in
\* state d: the error, or "" when there are files to read.
DirStates == {"files", "nofolder", "nofiles"}

getPromptFilesSync(promptDirectory, d) ==
  IF promptDirectory = "" THEN "Prompt directory is not configured"
  ELSE CASE d = "nofolder" -> "Prompt directory not found"
         [] d = "nofiles" -> "No prompt files found"
         [] OTHER -> ""

\* The calls whose generate has started and not yet settled.
Generating == {i \in Inv : inv[i].pc \in {"catalog", "select", "dismissed", "provider", "mkdir", "write"}}

\* A generate that turns a request away while another call is in progress.
GenerateStartOneAtATime(r, st, f, d) ==
  LET v == validateSettings(st)
      e == loadEnvFile(st.envFilePath, f)
      c == getPromptFilesSync(st.promptDirectory, d)
      r1 == [r EXCEPT !.io.env = @ + 1]
      r2 == [r1 EXCEPT !.io.catalog = @ + 1]
      busy == [kind |-> "busy", text |-> "Image generation is already in progress"]
  IN IF Generating # {} THEN ExecuteSettled(GenerateCancelled([r EXCEPT !.notices = Append(@, busy)]))
     ELSE IF v # "" THEN ExecuteSettled(GenerateCatch([r EXCEPT !.fault = TRUE], Err(v)))
     ELSE IF e # "" THEN ExecuteSettled(GenerateCatch([r1 EXCEPT !.fault = TRUE], Err(e)))
     ELSE IF c # "" THEN ExecuteSettled(GenerateCatch([r2 EXCEPT !.fault = TRUE], Err(c)))
     ELSE [r2 EXCEPT !.pc = "catalog"]

\* generate from its first line to its first suspension.
GenerateStart(r, st, f, d) ==
  LET v == validateSettings(st)
      e == loadEnvFile(st.envFilePath, f)
      c == getPromptFilesSync(st.promptDirectory, d)
      r1 == [r EXCEPT !.io.env = @ + 1]
      r2 == [r1 EXCEPT !.io.catalog = @ + 1]
  IN IF v # "" THEN ExecuteSettled(GenerateCatch([r EXCEPT !.fault = TRUE], Err(v)))
     ELSE IF e # "" THEN ExecuteSettled(GenerateCatch([r1 EXCEPT !.fault = TRUE], Err(e)))
     ELSE IF c # "" THEN ExecuteSettled(GenerateCatch([r2 EXCEPT !.fault = TRUE], Err(c)))
     ELSE [r2 EXCEPT !.pc = "catalog"]

\* ------------------------------------------------------------ the actions
\* History of call j, taken at its start: generate has failed in an earlier
\* call, and no earlier call is still running or has succeeded.
AfterFailure(j) ==
  /\ \E i \in Inv : i < j /\ inv[i].ret = "throw"
  /\ \A i \in Inv : i < j => inv[i].pc \in {"resolving", "done", "rejected"} /\ inv[i].ret # "object"

\* handleGenerateImage, with the synchronous start of executeGeneration.
\* from < to is a selection; from = to is none.
Submit(i) ==
  /\ inv[i].pc = "idle"
  /\ \A j \in Inv : j < i => inv[j].pc # "idle"
  /\ \E viewHasFile \in BOOLEAN, from \in 0..Len(doc), to \in 0..Len(doc),
        rand \in RandVals, f \in EnvStates, d \in DirStates :
       /\ from <= to
       /\ viewHasFile => fileExists
       /\ LET selectedText == SubSeq(doc, from + 1, to)
              sourceText == IF selectedText # <<>> THEN selectedText ELSE doc
              marker == Mk(<<DateNow, rand>>, i)
              insertPosition == IF selectedText # <<>> THEN to ELSE Len(doc)
          IN IF TrimIsEmpty(sourceText)
             THEN /\ inv' = [inv EXCEPT ![i] = Finished(@, "rejected", "warn:no-text")]
                  /\ doc' = doc
             ELSE IF ~viewHasFile
             THEN /\ inv' = [inv EXCEPT ![i] = Finished(@, "rejected", "warn:no-file")]
                  /\ doc' = doc
             ELSE /\ doc' = InsertAt(doc, insertPosition, <<marker>>)
                  /\ inv' = [inv EXCEPT ![i] =
                               GenerateStart([@ EXCEPT !.marker = marker.tok, !.afterFailure = AfterFailure(i),
                                                        !.dirAtSubmit = settings.imageOutputDirectory],
                                             settings, f, d)]
  /\ UNCHANGED units
  /\ UNCHANGED <<now, settings, fileExists, noteName, folders, files, edits>>

\* A saveImage that shows the success Notice when it calls createBinary.
SaveImageWriteNotifying(r, name, t, dataOk, existing) ==
  LET filePath == FilePath(r.dir, name, t, r.mime)
  IN [r EXCEPT !.path = filePath, !.io.write = @ + 1, !.pc = "write",
               !.notices = Append(@, [kind |-> "success", text |-> r.tmpl])]

\* saveImage from the filename on, once the folder is there: timestamp,
\* atob, and the call of vault.createBinary (which refuses an existing path).
SaveImageWrite(r, name, t, dataOk, existing) ==
  LET filePath == FilePath(r.dir, name, t, r.mime)
  IN IF ~dataOk
     THEN ExecuteSettled(GenerateCatch([r EXCEPT !.fault = TRUE], Err("The string to be decoded is not correctly encoded.")))
     ELSE IF filePath \in existing
     THEN ExecuteSettled(GenerateCatch(r, Err("File already exists.")))
     ELSE [r EXCEPT !.path = filePath, !.io.write = @ + 1, !.pc = "write"]

\* A saveImage that calls createFolder without looking for the folder.
SaveImageStartAlwaysCreates(r, st, name, t, dataOk, fs, existing) ==
  [r EXCEPT !.dir = OutputDir(st.imageOutputDirectory, name), !.io.mkdir = @ + 1, !.pc = "mkdir"]

\* A saveImage that works on the output directory the call started with.
SaveImageStartFromSnapshot(r, st, name, t, dataOk, fs, existing) ==
  LET outputDir == OutputDir(r.dirAtSubmit, name)
      r1 == [r EXCEPT !.dir = outputDir]
  IN IF outputDir \notin fs
     THEN [r1 EXCEPT !.io.mkdir = @ + 1, !.pc = "mkdir"]
     ELSE SaveImageWrite(r1, name, t, dataOk, existing)

\* saveImage from its first line: the output folder is looked up and, when
\* absent, vault.createFolder is called and awaited.
SaveImageStart(r, st, name, t, dataOk, fs, existing) ==
  LET outputDir == OutputDir(st.imageOutputDirectory, name)
      r1 == [r EXCEPT !.dir = outputDir]
  IN IF outputDir \notin fs
     THEN [r1 EXCEPT !.io.mkdir = @ + 1, !.pc = "mkdir"]
     ELSE SaveImageWrite(r1, name, t, dataOk, existing)

\* getPromptFiles completes: the files were read and the selector opens on
\* the templates of the directory, or a read failed.
CatalogDone(i) ==
  /\ inv[i].pc = "catalog"
  /\ \E ok \in BOOLEAN :
       inv' = [inv EXCEPT ![i] =
                 IF ok
                 THEN [@ EXCEPT !.io.selector = @ + 1, !.pc = "select", !.modal = "open"]
                 ELSE ExecuteSettled(GenerateCatch([@ EXCEPT !.fault = TRUE], Err("File read failed")))]
  /\ UNCHANGED units
  /\ UNCHANGED <<now, settings, doc, fileExists, noteName, folders, files, edits>>

\* The Select button of template t: the modal resolves, generate goes on to
\* the provider call.
SelectTemplate(i) ==
  /\ inv[i].pc = "select"
  /\ \E t \in Templates :
       inv' = [inv EXCEPT ![i] = [@ EXCEPT !.tmpl = t, !.io.provider = @ + 1, !.pc = "provider", !.modal = "select"]]
  /\ UNCHANGED units
  /\ UNCHANGED <<now, settings, doc, fileExists, noteName, folders, files, edits>>

\* The Cancel button: the modal rejects, generate returns null.
CancelSelection(i) ==
  /\ inv[i].pc = "select"
  /\ inv' = [inv EXCEPT ![i] = ExecuteSettled(GenerateCancelled([@ EXCEPT !.modal = "cancel"]))]
  /\ UNCHANGED units
  /\ UNCHANGED <<now, settings, doc, fileExists, noteName, folders, files, edits>>

\* A modal whose onClose calls onCancel.
DismissSelectorCancelling(i) ==
  /\ inv[i].pc = "select"
  /\ inv' = [inv EXCEPT ![i] = ExecuteSettled(GenerateCancelled([@ EXCEPT !.modal = "closed"]))]
  /\ UNCHANGED units
  /\ UNCHANGED <<now, settings, doc, fileExists, noteName, folders, files, edits>>

\* The modal is closed without a button (Escape, a click beside it): close
\* runs onClose, which empties the modal and calls neither callback, so the
\* promise of showPromptSelector stays pending and generate stays at its await.
DismissSelector(i) ==
  /\ inv[i].pc = "select"
  /\ inv' = [inv EXCEPT ![i] = [@ EXCEPT !.pc = "dismissed", !.modal = "closed"]]
  /\ UNCHANGED units
  /\ UNCHANGED <<now, settings, doc, fileExists, noteName, folders, files, edits>>

ProviderErrors == {"Gemini API error: Invalid request", "No image was generated. The API may have returned text only."}

\* GeminiClient.generateImage settles: an image of some MIME type, or an
\* Error; on an image, saveImage starts.
ProviderDone(i) ==
  /\ inv[i].pc = "provider"
  /\ \E ok \in BOOLEAN, mime \in Mimes, dataOk \in BOOLEAN, message \in ProviderErrors :
       inv' = [inv EXCEPT ![i] =
                 IF ok
                 THEN SaveImageStart([@ EXCEPT !.mime = mime], settings, noteName, now, dataOk, folders, files)
                 ELSE ExecuteSettled(GenerateCatch([@ EXCEPT !.fault = TRUE], Err(message)))]
  /\ UNCHANGED units
  /\ UNCHANGED <<now, settings, doc, fileExists, noteName, folders, files, edits>>

\* vault.createFolder settles; on success saveImage goes on to the write.
\* createFolder throws when the folder already exists; a call made while the
\* folder was absent and completing after another call created it may do so
\* too.
MkdirDone(i) ==
  /\ inv[i].pc = "mkdir"
  /\ \E ok \in BOOLEAN, dataOk \in BOOLEAN :
       IF ok
       THEN /\ folders' = folders \cup {inv[i].dir}
            /\ inv' = [inv EXCEPT ![i] = SaveImageWrite(@, noteName, now, dataOk, files)]
       ELSE /\ folders' = folders
            /\ inv' = [inv EXCEPT ![i] =
                         IF @.dir \in folders
                         THEN ExecuteSettled(GenerateCatch(@, Err("Folder already exists.")))
                         ELSE ExecuteSettled(GenerateCatch([@ EXCEPT !.fault = TRUE], Err("Failed to create folder")))]
  /\ UNCHANGED units
  /\ UNCHANGED <<now, settings, doc, fileExists, noteName, files, edits>>

\* vault.createBinary settles; on success generate returns its result.
WriteDone(i) ==
  /\ inv[i].pc = "write"
  /\ \E ok \in BOOLEAN :
       IF ok
       THEN /\ files' = files \cup {inv[i].path}
            /\ inv' = [inv EXCEPT ![i] = ExecuteSettled(GenerateReturn(@, @.path))]
       ELSE /\ files' = files
            /\ inv' = [inv EXCEPT ![i] = ExecuteSettled(GenerateCatch([@ EXCEPT !.fault = TRUE], Err("Failed to write file")))]
  /\ UNCHANGED units
  /\ UNCHANGED <<now, settings, doc, fileExists, noteName, folders, edits>>

\* A failure of vault.process that is thrown on to the caller.
ProcessFailedRethrows(r) == [Finished(r, "done", "error:could-not-update") EXCEPT !.rejects = TRUE]

\* A catch block around vault.process that leaves the marker to a later
\* attempt.
ProcessFailedRetrying(r) == [r EXCEPT !.log = <<"warn:could-not-update">>]

\* executeGeneration, catch block around vault.process: a warning, and the
\* promise of executeGeneration is not rejected.
ProcessFailed(r) == [Finished(r, "done", "warn:could-not-update") EXCEPT !.rejects = FALSE]

\* vault.process runs for invocation i: it rejects when the file is gone,
\* otherwise the callback rewrites the current content.
Resolve(i) ==
  /\ inv[i].pc = "resolving"
  /\ IF fileExists
     THEN LET out == ProcessCallback(doc, Mk(inv[i].marker, i), inv[i].replacementText, i)
          IN /\ doc' = out.content
             /\ inv' = [inv EXCEPT ![i] = Finished(@, "done", out.log)]
     ELSE /\ doc' = doc
          /\ inv' = [inv EXCEPT ![i] = ProcessFailed(@)]
  /\ UNCHANGED units
  /\ UNCHANGED <<now, settings, fileExists, noteName, folders, files, edits>>

\* ---------------------------------------------------------- the environment
Pending == {"catalog", "select", "dismissed", "provider", "mkdir", "write", "resolving"}

\* The user types a character into the note.
UserInsert ==
  /\ fileExists
  /\ edits < MaxEdits
  /\ \E p \in 0..Len(doc) : doc' = InsertAt(doc, p, <<Ch("x", 0)>>)
  /\ edits' = edits + 1
  /\ UNCHANGED units
  /\ UNCHANGED <<now, settings, fileExists, noteName, folders, files, inv>>

\* The user deletes a character, or deletes or breaks a marker.
UserDelete ==
  /\ fileExists
  /\ edits < MaxEdits
  /\ \E p \in 1..Len(doc) : doc' = RemoveAt(doc, p)
  /\ edits' = edits + 1
  /\ UNCHANGED units
  /\ UNCHANGED <<now, settings, fileExists, noteName, folders, files, inv>>

\* The note is deleted, or moved away from the captured TFile: its content
\* is no longer there to be read or edited.
DeleteFile ==
  /\ fileExists
  /\ fileExists' = FALSE
  /\ doc' = <<>>
  /\ UNCHANGED units
  /\ UNCHANGED <<now, settings, noteName, folders, files, edits, inv>>

\* A clock whose advance ends the provider calls that are still waiting.
TickTimingOut ==
  /\ now' \in {[s |-> now.s, ms |-> m] : m \in {now.ms + 1} \cap (0..MaxMs)}
              \cup {[s |-> t, ms |-> 0] : t \in {now.s + 1} \cap (0..MaxSec)}
  /\ inv' = [i \in Inv |-> IF inv[i].pc = "provider"
                            THEN ExecuteSettled(GenerateCatch(inv[i], Err("Request timed out")))
                            ELSE inv[i]]
  /\ UNCHANGED units
  /\ UNCHANGED <<settings, doc, fileExists, noteName, folders, files, edits>>

\* What the user types into the field of the image output directory.
TypedOutputDirs == {<<"p", " ">>, <<"/", "o", " ">>}

\* The settings tab, onChange of the image output directory: the field of
\* the settings object, which the service holds too, is assigned the
\* trimmed value; saveSettings hands the same object to updateSettings.
ChangeSettings ==
  /\ \E value \in TypedOutputDirs :
       /\ Trim(value) # settings.imageOutputDirectory
       /\ settings' = [settings EXCEPT !.imageOutputDirectory = Trim(value)]
  /\ UNCHANGED units
  /\ UNCHANGED <<now, doc, fileExists, noteName, folders, files, edits, inv>>

\* The clock advances by a millisecond, or into the next second.
Tick ==
  /\ now' \in {[s |-> now.s, ms |-> m] : m \in {now.ms + 1} \cap (0..MaxMs)}
              \cup {[s |-> t, ms |-> 0] : t \in {now.s + 1} \cap (0..MaxSec)}
  /\ UNCHANGED units
  /\ UNCHANGED <<settings, doc, fileExists, noteName, folders, files, edits, inv>>

\* ------------------------------------------- the provider client alone
\* ImageGeneratorService.generateImage builds a GeminiClient and calls its
\* generateImage, which runs up to the await of requestUrl.
ClientCall ==
  /\ client.pc = "idle"
  /\ \E model \in ModelIds, aspectRatio \in VALID_ASPECT_RATIOS, imageSize \in VALID_IMAGE_SIZES :
       client' = [client EXCEPT !.pc = "sent", !.model = model, !.aspectRatio = aspectRatio,
                                !.imageSize = imageSize,
                                !.request = ClientRequest(model, aspectRatio, imageSize),
                                !.calls = @ + 1, !.requests = @ + 1]
  /\ UNCHANGED <<plugin, template, logger, desk, svc>>

\* The request reaches the provider; generateImage uses none of its
\* arguments after the await.
ProviderReceives ==
  /\ client.pc = "sent"
  /\ client' = [client EXCEPT !.pc = "waiting", !.model = <<>>, !.aspectRatio = <<>>,
                              !.imageSize = <<>>, !.request = NoRequest]
  /\ UNCHANGED <<plugin, template, logger, desk, svc>>

\* A generateImage that sends the request again when requestUrl rejects.
ClientRespondRetrying ==
  /\ client.pc = "waiting"
  /\ \E response \in Responses :
       client' = IF response.transport # "ok" /\ client.requests < 2
                 THEN [client EXCEPT !.requests = @ + 1]
                 ELSE [client EXCEPT !.pc = "done", !.response = response,
                                     !.outcome = GenerateImageSettle(response)]
  /\ UNCHANGED <<plugin, template, logger, desk, svc>>

\* requestUrl settles and generateImage returns or throws.
ClientRespond ==
  /\ client.pc = "waiting"
  /\ \E response \in Responses :
       client' = [client EXCEPT !.pc = "done", !.response = response,
                                !.outcome = GenerateImageSettle(response)]
  /\ UNCHANGED <<plugin, template, logger, desk, svc>>

\* The caller has the outcome; the client is dropped.
ClientReturn ==
  /\ client.pc = "done"
  /\ client' = ClientIdle
  /\ UNCHANGED <<plugin, template, logger, desk, svc>>

\* Nothing runs in the plugin.
Quiet ==
  /\ now = [s |-> 0, ms |-> 0]
  /\ settings = [envFilePath |-> "", promptDirectory |-> "", imageOutputDirectory |-> <<>>]
  /\ doc = <<>>
  /\ fileExists = TRUE
  /\ noteName = <<>>
  /\ folders = {}
  /\ files = {}
  /\ edits = 0
  /\ inv = [i \in Inv |-> Idle]

InitClient ==
  /\ Quiet
  /\ client = ClientIdle
  /\ template = NoTemplate
  /\ logger = LoggerIdle(ApiKey39, TRUE)
  /\ desk = DeskIdle(<<>>)
  /\ svc = SvcIdle

NextClient == ClientCall \/ ProviderReceives \/ ClientRespond \/ ClientReturn

SpecClient == InitClient /\ [][NextClient]_vars

\* ------------------------------------------- the template parser alone
\* getPromptFiles, for one file of the directory: parsePromptFile on the
\* text read.
ParseTemplate ==
  /\ template.pc = "read"
  /\ LET p == parsePromptFile(template.content)
     IN template' = [template EXCEPT !.pc = "parsed",
                                     !.parsed = [aspectRatio |-> p.aspectRatio, imageSize |-> p.imageSize],
                                     !.warnings = p.warnings,
                                     !.content = p.content]
  /\ UNCHANGED <<plugin, client, logger, desk, svc>>

InitPrompt ==
  /\ Quiet
  /\ client = ClientIdle
  /\ template \in {TemplateIdle(f) : f \in TemplateFiles}
  /\ logger = LoggerIdle(ApiKey39, TRUE)
  /\ desk = DeskIdle(<<>>)
  /\ svc = SvcIdle

NextPrompt == ParseTemplate

SpecPrompt == InitPrompt /\ [][NextPrompt]_vars

\* ---------------------------------------------------- the logger alone
\* info, warn, error or debug is called: Logger.log writes the console
\* message and, when enabled, appends the line to the log file.
LoggerLog ==
  /\ logger.pc = "idle"
  /\ \E level \in Levels, message \in LogMessages, args \in SeqsUpTo(LogArgs, MaxArgs) :
       LET timestamp == toISOString(now)
           safeContent == sanitize(LogContent(message, args))
       IN logger' = [logger EXCEPT !.pc = "written", !.level = level, !.message = message, !.args = args,
                                   !.console = Written(ConsoleMethod(level), ConsoleMessage(safeContent)),
                                   !.file = IF logger.enabled
                                            THEN Written("appendFileSync", LogLine(timestamp, level, safeContent))
                                            ELSE NotWritten]
  /\ UNCHANGED <<plugin, client, template, desk, svc>>

\* log returns to its caller.
LoggerReturn ==
  /\ logger.pc = "written"
  /\ logger' = LoggerIdle(logger.apiKey, logger.enabled)
  /\ UNCHANGED <<plugin, client, template, desk, svc>>

InitLogger ==
  /\ Quiet
  /\ client = ClientIdle
  /\ template = NoTemplate
  /\ logger \in {LoggerIdle(k, e) : k \in ApiKeys, e \in BOOLEAN}
  /\ desk = DeskIdle(<<>>)
  /\ svc = SvcIdle

NextLogger == LoggerLog \/ LoggerReturn

SpecLogger == InitLogger /\ [][NextLogger]_vars

\* ------------------------------------- the command in a vault of notes
\* handleGenerateImage on the active view, whose selection runs from offset
\* from to offset to (from = to: none).  It has no await: it runs to its end
\* before any other task.
DeskCommand ==
  /\ desk.pc = "idle"
  /\ desk.commands < MaxCommands
  /\ LET text == desk.texts[desk.active]
     IN \E from \in 0..Len(text), to \in 0..Len(text), rand \in RandVals :
          /\ from <= to
          /\ LET selectedText == SubSeq(text, from + 1, to)
                 sourceText == IF selectedText # <<>> THEN selectedText ELSE text
                 marker == Mk(<<DateNow, rand>>, 1)
                 hasSelection == selectedText # <<>>
                 insertPosition == IF hasSelection THEN getCursorTo(text, to) ELSE EndOfDocument(text)
                 called == [desk EXCEPT !.commands = @ + 1, !.sel = [from |-> from, to |-> to]]
             IN desk' = IF HasNoText(sourceText) THEN [called EXCEPT !.log = "warn:no-text"]
                        ELSE IF desk.active = NoFile THEN [called EXCEPT !.log = "warn:no-file"]
                        ELSE [called EXCEPT !.texts[desk.active] = replaceRange(text, marker, insertPosition),
                                            !.log = "debug:marker-inserted",
                                            !.pc = "generating", !.file = desk.active,
                                            !.marker = marker.tok, !.sourceText = sourceText,
                                            !.generateCalls = @ + 1]
  /\ UNCHANGED <<plugin, client, template, logger, svc>>

\* The user opens another view.
DeskSwitch ==
  /\ \E v \in Views \ {desk.active} :
       /\ v \in desk.exists \cup {NoFile}
       /\ desk' = [desk EXCEPT !.active = v]
  /\ UNCHANGED <<plugin, client, template, logger, svc>>

\* The user types into the active view, or deletes from it.
DeskType ==
  /\ desk.typed < MaxEdits
  /\ LET text == desk.texts[desk.active]
     IN \E p \in 0..Len(text), typing \in BOOLEAN :
          /\ ~typing => p >= 1
          /\ desk' = [desk EXCEPT !.typed = @ + 1,
                                  !.texts[desk.active] =
                                     IF typing THEN InsertAt(text, p, <<Ch("x", 0)>>) ELSE RemoveAt(text, p)]
  /\ UNCHANGED <<plugin, client, template, logger, svc>>

\* A note that is not open is deleted.
DeskDelete ==
  /\ \E n \in desk.exists \ {desk.active} :
       desk' = [desk EXCEPT !.exists = @ \ {n}, !.texts[n] = <<>>]
  /\ UNCHANGED <<plugin, client, template, logger, svc>>

\* generate settles with its result object (success Notice), with null, or
\* with an error (failure Notice): executeGeneration has its replacementText.
DeskSettle ==
  /\ desk.pc = "generating"
  /\ \E ret \in {"object", "null", "throw"} :
       desk' = [desk EXCEPT !.pc = "settled",
                            !.notices = IF ret = "null" THEN @ ELSE @ + 1,
                            !.replacementText =
                               IF ret = "object" THEN ResultObject(ImageLink(<<"o", "/", "i">>), "t1")
                               ELSE EmptyString]
  /\ UNCHANGED <<plugin, client, template, logger, svc>>

\* A resolve step that writes into the editor of the active view.
DeskProcessActiveView ==
  /\ desk.pc = "settled"
  /\ LET out == ProcessCallback(desk.texts[desk.active], Mk(desk.marker, 1), desk.replacementText, 1)
     IN desk' = [desk EXCEPT !.pc = "done", !.texts[desk.active] = out.content, !.log = out.log]
  /\ UNCHANGED <<plugin, client, template, logger, svc>>

\* vault.process(file, callback) with the TFile captured by the command.
DeskProcess ==
  /\ desk.pc = "settled"
  /\ IF desk.file \in desk.exists
     THEN LET out == ProcessCallback(desk.texts[desk.file], Mk(desk.marker, 1), desk.replacementText, 1)
          IN desk' = [desk EXCEPT !.pc = "done", !.texts[desk.file] = out.content, !.log = out.log]
     ELSE desk' = [desk EXCEPT !.pc = "done", !.log = "warn:could-not-update"]
  /\ UNCHANGED <<plugin, client, template, logger, svc>>

InitDesk ==
  /\ Quiet
  /\ client = ClientIdle
  /\ template = NoTemplate
  /\ logger = LoggerIdle(ApiKey39, TRUE)
  /\ desk \in {DeskIdle(text) : text \in DeskTexts}
  /\ svc = SvcIdle

NextDesk == DeskCommand \/ DeskSwitch \/ DeskType \/ DeskDelete \/ DeskSettle \/ DeskProcess

SpecDesk == InitDesk /\ [][NextDesk]_vars

\* ------------------------------------ the service on its own
\* The state of the credential file at a path, as loadEnvFile finds it.
EnvStateAt(envFiles, envFilePath) ==
  IF envFilePath \notin DOMAIN envFiles \/ ~envFiles[envFilePath].exists THEN "missing"
  ELSE IF envFiles[envFilePath].key = "" THEN "nokey"
  ELSE IF envFiles[envFilePath].model = "" THEN "nomodel"
  ELSE "ok"

\* The state of the prompt folder at a path, as getPromptFiles finds it.
DirStateAt(promptFolders, promptDirectory) ==
  IF promptDirectory \notin DOMAIN promptFolders \/ promptFolders[promptDirectory] = NoFolder THEN "nofolder"
  ELSE IF promptFolders[promptDirectory] = {} THEN "nofiles"
  ELSE "files"

\* A service that reads the credential file once and keeps what it read.
EnvConfigKept(s) ==
  IF s.last.envConfig # NoEnvConfig THEN s.last.envConfig
  ELSE [geminiApiKey |-> s.envFiles[s.settings.envFilePath].key,
        geminiModel |-> s.envFiles[s.settings.envFilePath].model]

\* The EnvConfig loadEnvFile returns: the file at the path in the settings
\* of this moment is read and parsed.
EnvConfigRead(s) ==
  [geminiApiKey |-> s.envFiles[s.settings.envFilePath].key,
   geminiModel |-> s.envFiles[s.settings.envFilePath].model]

\* generate has thrown: the catch block, then the call is over.
SvcThrow(s, message) == [s EXCEPT !.pc = "settled", !.ret = "throw", !.err = message]

\* The settings tab: a field of the settings object is assigned.
SvcChangeSettings ==
  /\ svc.changes < MaxChanges
  /\ \E st \in [envFilePath : SvcEnvPaths \cup {""}, promptDirectory : SvcPromptDirs] :
       /\ st # svc.settings
       /\ \/ st.envFilePath = svc.settings.envFilePath
          \/ st.promptDirectory = svc.settings.promptDirectory
       /\ svc' = [svc EXCEPT !.settings = st, !.changes = @ + 1]
  /\ UNCHANGED <<plugin, client, template, logger, desk>>

\* The user rewrites or removes a credential file.
SvcWriteEnvFile ==
  /\ svc.changes < MaxChanges
  /\ \E p \in SvcEnvPaths, c \in EnvContents :
       /\ c # svc.envFiles[p]
       /\ svc' = [svc EXCEPT !.envFiles[p] = c, !.changes = @ + 1]
  /\ UNCHANGED <<plugin, client, template, logger, desk>>

\* The user adds or removes prompt files, or a prompt folder.
SvcChangeFolder ==
  /\ svc.changes < MaxChanges
  /\ \E d \in SvcPromptDirs, c \in FolderContents :
       /\ c # svc.promptFolders[d]
       /\ svc' = [svc EXCEPT !.promptFolders[d] = c, !.changes = @ + 1]
  /\ UNCHANGED <<plugin, client, template, logger, desk>>

\* generate from its first line to the first await of getPromptFiles:
\* validateSettings, loadEnvFile and the lookup of the prompt folder.
SvcGenerate ==
  /\ svc.pc = "idle"
  /\ svc.calls < MaxCalls
  /\ LET st == svc.settings
         v == validateSettings(st)
         e == loadEnvFile(st.envFilePath, EnvStateAt(svc.envFiles, st.envFilePath))
         c == getPromptFilesSync(st.promptDirectory, DirStateAt(svc.promptFolders, st.promptDirectory))
         m == IF EnvStateAt(svc.envFiles, st.envFilePath) = "nomodel"
              THEN "GEMINI_MODEL is not set in .env file" ELSE ""
     IN svc' = IF v # "" THEN SvcThrow(svc, v)
               ELSE IF e # "" THEN SvcThrow(svc, e)
               ELSE IF m # "" THEN SvcThrow(svc, m)
               ELSE IF c # "" /\ c # "No prompt files found"
                    THEN SvcThrow([svc EXCEPT !.envConfig = EnvConfigRead(svc)], c)
               ELSE [svc EXCEPT !.envConfig = EnvConfigRead(svc),
                                !.folder = st.promptDirectory, !.pc = "catalog"]
  /\ UNCHANGED <<plugin, client, template, logger, desk>>

\* getPromptFiles returns: the .md files of the folder have been read.
SvcCatalogRead ==
  /\ svc.pc = "catalog"
  /\ LET children == IF svc.promptFolders[svc.folder] = NoFolder THEN {} ELSE svc.promptFolders[svc.folder]
     IN svc' = IF children = {} THEN SvcThrow(svc, "No prompt files found")
               ELSE [svc EXCEPT !.promptFiles = children, !.pc = "select"]
  /\ UNCHANGED <<plugin, client, template, logger, desk>>

\* A Select button: generateImage makes a GeminiClient from the EnvConfig
\* of this call and sends the request; the call is followed to its return.
SvcSelect ==
  /\ svc.pc = "select"
  /\ \E t \in svc.promptFiles :
       svc' = [svc EXCEPT !.request = [key |-> svc.envConfig.geminiApiKey,
                                       model |-> svc.envConfig.geminiModel, prompt |-> t],
                          !.pc = "settled", !.ret = "object"]
  /\ UNCHANGED <<plugin, client, template, logger, desk>>

\* The Cancel button: generate returns null.
SvcCancel ==
  /\ svc.pc = "select"
  /\ svc' = [svc EXCEPT !.pc = "settled", !.ret = "null"]
  /\ UNCHANGED <<plugin, client, template, logger, desk>>

\* generate has returned: its locals are gone.
SvcReturn ==
  /\ svc.pc = "settled"
  /\ svc' = [svc EXCEPT !.last = [envConfig |-> svc.envConfig, promptFiles |-> svc.promptFiles,
                                  request |-> svc.request],
                        !.envConfig = NoEnvConfig, !.folder = "", !.promptFiles = {},
                        !.request = NoSvcRequest, !.ret = "pending", !.err = "",
                        !.pc = "idle", !.calls = @ + 1]
  /\ UNCHANGED <<plugin, client, template, logger, desk>>

InitService ==
  /\ Quiet
  /\ client = ClientIdle
  /\ template = NoTemplate
  /\ logger = LoggerIdle(ApiKey39, TRUE)
  /\ desk = DeskIdle(<<>>)
  /\ svc = SvcIdle

NextService ==
  \/ SvcChangeSettings
  \/ SvcWriteEnvFile
  \/ SvcChangeFolder
  \/ SvcGenerate
  \/ SvcCatalogRead
  \/ SvcSelect
  \/ SvcCancel
  \/ SvcReturn

SpecService == InitService /\ [][NextService]_vars

Next ==
  \/ \E i \in Inv : Submit(i)
  \/ \E i \in Inv : CatalogDone(i)
  \/ \E i \in Inv : SelectTemplate(i)
  \/ \E i \in Inv : CancelSelection(i)
  \/ \E i \in Inv : DismissSelector(i)
  \/ \E i \in Inv : ProviderDone(i)
  \/ \E i \in Inv : MkdirDone(i)
  \/ \E i \in Inv : WriteDone(i)
  \/ \E i \in Inv : Resolve(i)
  \/ UserInsert
  \/ UserDelete
  \/ DeleteFile
  \/ Tick

Spec == Init /\ [][Next]_vars

\* The plugin with the settings tab in use, the note left alone.
NextSettings ==
  \/ ChangeSettings
  \/ \E i \in Inv : Submit(i)
  \/ \E i \in Inv : CatalogDone(i)
  \/ \E i \in Inv : SelectTemplate(i)
  \/ \E i \in Inv : CancelSelection(i)
  \/ \E i \in Inv : ProviderDone(i)
  \/ \E i \in Inv : MkdirDone(i)
  \/ \E i \in Inv : WriteDone(i)
  \/ \E i \in Inv : Resolve(i)

SpecSettings == Init /\ [][NextSettings]_vars

\* The call of vault.process in the finally block of executeGeneration is a
\* task of the event loop: once generate has settled it is run.
SpecFair == Spec /\ \A i \in Inv : WF_vars(Resolve(i))

\* ----------------------------------------------------------------- claims
\* The step in which vault.process runs for invocation i.
ResolveStep(i) == inv[i].pc = "resolving" /\ inv'[i].pc = "done"

\* The step in which generate settles for invocation i.
SettleStep(i) == inv[i].pc # "resolving" /\ inv'[i].pc = "resolving"

\* The characters of a text, without the writer of each.
Plain(d) == [k \in 1..Len(d) |-> [c |-> d[k].c, tok |-> d[k].tok]]

\* Number of markers in d that invocation j wrote.
MarkersBy(d, j) == Cardinality({p \in 1..Len(d) : IsMarker(d[p]) /\ d[p].by = j})

\* What the user wrote, in order.
UserText(d) == SelectSeq(d, LAMBDA it : it.by = 0)

\* The marker invocation i is waiting for, as it searches for it.
MarkerOf(i) == Mk(inv[i].marker, i)

\* C1: while two invocations are pending on the note, the resolve step of
\* one never replaces or removes the marker the other wrote, and what it
\* replaces is the marker it wrote itself.
C1_OthersMarkerUntouched ==
  [][\A i \in Inv, j \in Inv :
       (i # j /\ ResolveStep(i) /\ inv[j].pc \in Pending /\ fileExists)
         => /\ MarkersBy(doc', j) = MarkersBy(doc, j)
            /\ IndexOf(doc, MarkerOf(i)) # 0 => doc[IndexOf(doc, MarkerOf(i))].by = i]_vars

\* C2: no marker token is held by two invocations, and an invocation's
\* marker is in the document at most once.
C2_TokensDiffer ==
  /\ \A i \in Inv, j \in Inv :
       (i < j /\ inv[i].marker # <<>> /\ inv[j].marker # <<>>) => inv[i].marker # inv[j].marker
  /\ \A i \in Inv : MarkersBy(doc, i) <= 1

\* The insertion text generate produced for invocation i: the imageLink of
\* its result on success, the empty string otherwise.
InsertionText(i) == IF inv[i].ret = "object" THEN inv[i].result.s ELSE <<>>

\* C3: when the resolve step finds the marker, the document afterwards is
\* the document before with that occurrence replaced by exactly the
\* insertion text (empty on failure or cancellation), all else unchanged.
C3_ExactReplacement ==
  [][\A i \in Inv :
       (ResolveStep(i) /\ fileExists /\ IndexOf(doc, MarkerOf(i)) # 0)
         => LET p == IndexOf(doc, MarkerOf(i))
            IN Plain(doc') = Plain(SubSeq(doc, 1, p - 1)) \o Plain(Text(InsertionText(i), i))
                               \o Plain(SubSeq(doc, p + 1, Len(doc)))]_vars

\* C4: the resolve step works on the content as it is when it runs: what
\* the user has typed or deleted since submit is neither lost nor brought
\* back, and the markers of other invocations stay where they are.
C4_UserEditsKept ==
  [][\A i \in Inv :
       (ResolveStep(i) /\ fileExists)
         => /\ UserText(doc') = UserText(doc)
            /\ LET p == IndexOf(doc, MarkerOf(i))
               IN p # 0 => /\ SubSeq(doc', 1, p - 1) = SubSeq(doc, 1, p - 1)
                           /\ SubSeq(doc', Len(doc') - (Len(doc) - p) + 1, Len(doc'))
                                = SubSeq(doc, p + 1, Len(doc))]_vars

\* C4 witness: one invocation has replaced its marker in a note whose only
\* character the user deleted after submit (submit needs a non-blank note).
C4_Witness ==
  /\ inv[1].pc = "done" /\ inv[1].log = <<"debug:replacing">>
  /\ inv[2].pc = "idle"
  /\ edits = 1
  /\ UserText(doc) = <<>>

\* C5: when the marker is no longer in the note as the resolve step runs,
\* the content is left as it is, the warning is logged and executeGeneration
\* does not reject, however generate settled.
C5_MissingMarkerNoChange ==
  [][\A i \in Inv :
       (ResolveStep(i) /\ fileExists /\ IndexOf(doc, MarkerOf(i)) = 0)
         => /\ doc' = doc
            /\ inv'[i].log = <<"warn:marker-not-found">>
            /\ ~inv'[i].rejects]_vars

\* C5 witness: a successful generation whose marker the user had deleted.
C5_Witness ==
  \E i \in Inv : /\ inv[i].pc = "done" /\ inv[i].ret = "object"
                 /\ inv[i].log = <<"warn:marker-not-found">>

\* C6: when the note is gone at the resolve step nothing is changed and the
\* failure is logged as a warning; executeGeneration rejects in no case.
C6_NeverRejects ==
  [][\A i \in Inv :
       ResolveStep(i)
         => /\ ~inv'[i].rejects
            /\ ~fileExists => /\ doc' = doc /\ folders' = folders /\ files' = files
                              /\ inv'[i].log = <<"warn:could-not-update">>]_vars

\* C6 witness: a failed generation whose note was gone at the resolve step.
C6_Witness ==
  \E i \in Inv : /\ inv[i].pc = "done" /\ inv[i].ret = "throw"
                 /\ inv[i].log = <<"warn:could-not-update">>

\* C7: cancelling the selection makes generate return null: nothing is
\* thrown, no failure notice is shown, the provider is not called and
\* nothing is written.
C7_CancelIsNotFailure ==
  [][\A i \in Inv :
       (inv[i].pc = "select" /\ inv'[i].pc = "resolving")
         => /\ inv'[i].ret = "null" /\ inv'[i].err = ""
            /\ inv'[i].notices = <<>>
            /\ inv'[i].io.provider = 0 /\ inv'[i].io.mkdir = 0 /\ inv'[i].io.write = 0
            /\ folders' = folders /\ files' = files]_vars

\* C7 witness: generate has returned null after the selector was shown.
C7_Witness ==
  \E i \in Inv : inv[i].pc = "resolving" /\ inv[i].ret = "null" /\ inv[i].io.selector = 1

ConfigErrors ==
  {".env file path is not configured. Please check plugin settings.",
   "Prompt directory is not configured. Please check plugin settings."}

\* C8: with the credential path or the prompt directory not configured,
\* generate fails with the configuration error before any I/O.
C8_ConfigErrorBeforeIO ==
  [][\A i \in Inv :
       (inv[i].pc = "idle" /\ inv'[i].pc \notin {"idle", "rejected"}
          /\ (settings.envFilePath = "" \/ settings.promptDirectory = ""))
         => /\ inv'[i].pc = "resolving" /\ inv'[i].ret = "throw"
            /\ inv'[i].err \in ConfigErrors
            /\ inv'[i].io = NoIO
            /\ folders' = folders /\ files' = files]_vars

\* C8 witness: generate has failed on the missing prompt directory.
C8_Witness ==
  \E i \in Inv : /\ inv[i].pc = "resolving"
                 /\ inv[i].err = "Prompt directory is not configured. Please check plugin settings."

\* C9: a failed generate shows exactly one failure notice, carrying the
\* message of the error it re-throws; the caller then resolves the marker
\* with the empty string, so nothing of the invocation is left in the note.
C9_FailureReported ==
  [][\A i \in Inv :
       /\ (SettleStep(i) /\ inv'[i].ret = "throw")
            => /\ inv'[i].notices = <<[kind |-> "failure", text |-> inv'[i].err]>>
               /\ inv'[i].err # ""
               /\ inv'[i].replacementText = EmptyString
       /\ (ResolveStep(i) /\ inv[i].ret = "throw" /\ fileExists /\ IndexOf(doc, MarkerOf(i)) # 0)
            => doc' = RemoveAt(doc, IndexOf(doc, MarkerOf(i)))]_vars

\* C9 witness: the provider call failed and the marker was then removed.
C9_Witness ==
  \E i \in Inv : /\ inv[i].pc = "done" /\ inv[i].ret = "throw"
                 /\ inv[i].log = <<"debug:replacing">>
                 /\ \A p \in 1..Len(doc) : doc[p].by # i

\* C10: an invocation whose own settings, credential file, templates,
\* provider answer and storage are in order succeeds, whatever other
\* invocations are in flight.
C10_OutcomeAsAlone ==
  \A i \in Inv :
    (inv[i].pc = "resolving" /\ inv[i].ret = "throw") => inv[i].fault

\* C11: no two invocations compute the same asset path: two writes in
\* flight never go to one path, and no write finds its path taken by the
\* file of another invocation.
C11_PathsDiffer ==
  /\ \A i \in Inv, j \in Inv :
       (i # j /\ inv[i].pc = "write" /\ inv[j].pc = "write") => inv[i].path # inv[j].path
  /\ \A i \in Inv : inv[i].err # "File already exists."

\* C12: a generate call that starts after an earlier call has failed, with
\* no other call running beside it, fails only for a fault of its own
\* settings, credential file, templates, provider answer or storage.
C12_SucceedsAfterFailure ==
  \A j \in Inv :
    (/\ inv[j].afterFailure
     /\ inv[j].pc = "resolving" /\ inv[j].ret = "throw"
     /\ \A i \in Inv : i > j => inv[i].pc = "idle")
      => inv[j].fault

\* C12 witness: a call made after a failed call, one that left the output
\* folder behind, has returned its result.
C12_Witness ==
  \E j \in Inv : /\ inv[j].afterFailure
                 /\ inv[j].pc = "resolving" /\ inv[j].ret = "object"
                 /\ inv[j].io.mkdir = 0

\* The step in which the provider call of invocation i returns an image and
\* saveImage runs up to its first suspension.
SaveImageStep(i) == inv[i].pc = "provider" /\ inv'[i].pc \in {"mkdir", "write", "resolving"} /\ inv'[i].io.provider = 1

\* C13: an output folder that exists is not created again, and no
\* invocation fails because another invocation created the folder.
C13_FolderEnsuredOnce ==
  [][\A i \in Inv :
       /\ (SaveImageStep(i) /\ OutputDir(settings.imageOutputDirectory, noteName) \in folders)
            => inv'[i].io.mkdir = 0
       /\ inv'[i].err # "Folder already exists."]_vars

\* Models the capability lists name, with or without a path prefix or a
\* version suffix, as the claims classify them.
FullConfigModels ==
  {GEMINI_3_PRO_IMAGE_PREVIEW, GEMINI_3_PRO_IMAGE, ModelsPrefix \o GEMINI_3_PRO_IMAGE}

AspectRatioOnlyModels ==
  {GEMINI_25_FLASH_IMAGE, ModelsPrefix \o GEMINI_25_FLASH_IMAGE, GEMINI_25_FLASH_IMAGE \o VersionSuffix}

\* C14: the request of a full-config model carries imageConfig with the
\* aspect ratio and the size of the call, the request of an
\* aspect-ratio-only model carries imageConfig with the aspect ratio alone,
\* and the request of any other model carries no imageConfig.
C14_ImageConfigByCapability ==
  client.pc = "sent" =>
    LET config == client.request.generationConfig
    IN CASE client.model \in FullConfigModels ->
              /\ "imageConfig" \in DOMAIN config
              /\ DOMAIN config.imageConfig = {"aspectRatio", "imageSize"}
              /\ config.imageConfig.aspectRatio = client.aspectRatio
              /\ config.imageConfig.imageSize = client.imageSize
         [] client.model \in AspectRatioOnlyModels ->
              /\ "imageConfig" \in DOMAIN config
              /\ DOMAIN config.imageConfig = {"aspectRatio"}
              /\ config.imageConfig.aspectRatio = client.aspectRatio
         [] OTHER -> "imageConfig" \notin DOMAIN config

\* C14 witness: gemini-2.5-flash-image called with 21:9 and 4K sends
\* exactly {aspectRatio: 21:9}.
C14_Witness ==
  /\ client.pc = "sent"
  /\ client.model = GEMINI_25_FLASH_IMAGE
  /\ client.aspectRatio = <<"2", "1", ":", "9">> /\ client.imageSize = <<"4", "K">>
  /\ client.request.generationConfig.imageConfig = [aspectRatio |-> <<"2", "1", ":", "9">>]

\* The response had a JSON body with a top-level error object.
ErrorAnswered == client.pc = "done" /\ client.response.transport = "ok" /\ client.response.error.present

\* C15 as stated: on a top-level error object generateImage fails with an
\* error whose message is exactly the message of the provider.
C15_MessageIsProviderMessage ==
  ErrorAnswered =>
    client.outcome.kind = "error" /\ client.outcome.message = <<client.response.error.message>>

\* C15 as amended: on a top-level error object generateImage fails with an
\* error whose message is "Gemini API error: " followed by the message of
\* the provider, whatever candidates the response carries.
C15_MessageIsPrefixedProviderMessage ==
  ErrorAnswered =>
    /\ client.outcome.kind = "error"
    /\ client.outcome.message = <<"Gemini API error: ", client.response.error.message>>

\* C15 witness: an error object next to a first candidate with an image.
C15_Witness ==
  /\ ErrorAnswered
  /\ client.response.error.message = "Invalid request"
  /\ client.response.hasCandidates /\ Len(client.response.candidates) >= 1
  /\ client.response.candidates[1].kind = "parts"
  /\ \E k \in 1..Len(client.response.candidates[1].parts) :
       client.response.candidates[1].parts[k].kind = "inline"

\* The positions of the first candidate's parts that carry inline data.
InlinePositions(response) ==
  IF response.hasCandidates /\ Len(response.candidates) >= 1 /\ response.candidates[1].kind = "parts"
  THEN {k \in 1..Len(response.candidates[1].parts) : response.candidates[1].parts[k].kind = "inline"}
  ELSE {}

\* C16: without an error object, generateImage returns the MIME type and
\* the data of the first inline part of the first candidate, and fails with
\* the no-image error when the first candidate has none, whatever later
\* candidates carry.
C16_FirstInlinePartOfFirstCandidate ==
  (client.pc = "done" /\ client.response.transport = "ok" /\ ~client.response.error.present) =>
    LET at == InlinePositions(client.response)
    IN IF at = {}
       THEN /\ client.outcome.kind = "error"
            /\ client.outcome.message = <<"No image was generated. The API may have returned text only.">>
       ELSE LET part == client.response.candidates[1].parts[CHOOSE k \in at : \A l \in at : k <= l]
            IN /\ client.outcome.kind = "image"
               /\ client.outcome.mimeType = part.mimeType
               /\ client.outcome.data = part.data

\* C16 witness: the first candidate has text only, the second an image,
\* and generateImage failed.
C16_Witness ==
  /\ client.pc = "done" /\ client.response.transport = "ok" /\ ~client.response.error.present
  /\ client.response.hasCandidates /\ Len(client.response.candidates) = 2
  /\ client.response.candidates[1] = [kind |-> "parts", parts |-> <<TextPart>>]
  /\ client.response.candidates[2].kind = "parts"
  /\ \E k \in 1..Len(client.response.candidates[2].parts) :
       client.response.candidates[2].parts[k].kind = "inline"
  /\ client.outcome.kind = "error"

\* C17: a call of the service's generateImage makes one call of the client
\* and one request, whatever requestUrl settles with.
C17_OneRequestPerCall ==
  client.pc # "idle" => client.calls = 1 /\ client.requests = 1

\* C17 witness: requestUrl rejected and generateImage has thrown.
C17_Witness ==
  client.pc = "done" /\ client.response.transport = "error" /\ client.outcome.kind = "error"

\* The value the author gave for a key, when it is one of the valid set;
\* the default otherwise.
Intended(f, e, valid, default) ==
  IF f.header /\ e.present /\ e.value \in valid THEN e.value ELSE default

Words(text) ==
  LET starts == {a \in 1..Len(text) : text[a] \notin WhiteSpace /\ (a = 1 \/ text[a - 1] \in WhiteSpace)}
      EndOf(a) == CHOOSE b \in a..Len(text) :
                    /\ \A k \in a..b : text[k] \notin WhiteSpace
                    /\ b = Len(text) \/ text[b + 1] \in WhiteSpace
      Start(k) == CHOOSE a \in starts : Cardinality({c \in starts : c < a}) = k - 1
  IN [k \in 1..Cardinality(starts) |-> SubSeq(text, Start(k), EndOf(Start(k)))]

\* A word that looks like a credential: 20 or more token characters.
CredentialShaped(word) == Len(word) >= MinTokenLength /\ \A k \in 1..Len(word) : word[k] \in TokenChars

\* The words a log call hands over, the credential-shaped ones cut down to
\* their first four characters, four stars and their last four characters.
MaskedWords(message, args) ==
  LET words == Words(LogContent(message, args))
  IN [k \in DOMAIN words |-> IF CredentialShaped(words[k]) THEN MaskToken(words[k]) ELSE words[k]]

Succeeded(r) == \E k \in 1..Len(r.notices) : r.notices[k].kind = "success"

\* C22: within one invocation the steps run in the order settings
\* validation, credential load, catalog load, template selection, provider
\* call, folder and asset write, success notice, each once and none unless
\* the one before it succeeded: no provider call without a completed
\* selection, no write without an image from the provider, and the success
\* notice only in the step in which the asset has been written.
C22_StepsInOrder ==
  /\ [](\A i \in Inv :
          LET r == inv[i]
          IN /\ \A step \in DOMAIN r.io : r.io[step] <= 1
             /\ r.io.catalog = 1 => r.io.env = 1
             /\ r.io.selector = 1 => r.io.catalog = 1
             /\ r.io.provider = 1 => r.io.selector = 1
             /\ (r.io.mkdir = 1 \/ r.io.write = 1) => r.io.provider = 1
             /\ r.pc = "provider" => r.tmpl \in Templates
             /\ r.pc \in {"mkdir", "write"} => r.mime \in Mimes /\ r.tmpl \in Templates
             /\ Succeeded(r) => r.io.write = 1 /\ r.ret = "object")
  /\ [][\A i \in Inv :
          (~Succeeded(inv[i]) /\ Succeeded(inv'[i]))
            => /\ inv[i].pc = "write"
               /\ inv[i].path \in files'
               /\ inv'[i].result = ResultObject(ImageLink(inv[i].path), inv[i].tmpl)]_vars

\* C22 witness: a call went through every step, the folder creation
\* included, and has shown its success notice.
C22_Witness ==
  \E i \in Inv : /\ inv[i].pc = "resolving" /\ Succeeded(inv[i])
                 /\ inv[i].io = [env |-> 1, catalog |-> 1, selector |-> 1, provider |-> 1, mkdir |-> 1, write |-> 1]

\* C28: the promise of showPromptSelector settles only through a Select
\* button (resolved with that template) or the Cancel button (rejected, so
\* generate returns null), and once; a modal closed in any other way settles
\* nothing: generate never settles for that invocation, which never reaches
\* its resolve step.
C28_SelectorSettlesByButtonOnly ==
  [][\A i \in Inv :
       /\ (inv[i].pc = "select" /\ inv'[i] # inv[i])
            => \/ /\ inv'[i].modal = "select"
                  /\ inv'[i].pc = "provider" /\ inv'[i].tmpl \in Templates /\ inv'[i].ret = "pending"
               \/ /\ inv'[i].modal = "cancel"
                  /\ inv'[i].pc = "resolving" /\ inv'[i].ret = "null"
               \/ /\ inv'[i].modal = "closed"
                  /\ inv'[i] = [inv[i] EXCEPT !.pc = "dismissed", !.modal = "closed"]
       /\ inv[i].modal \in {"select", "cancel", "closed"} => inv'[i].modal \in {inv[i].modal, "none"}
       /\ inv[i].pc = "dismissed" => inv'[i] = inv[i]]_vars

\* C28 witness: one modal was closed without a button and its invocation
\* waits with its marker in the note, while a later invocation has been
\* resolved.
C28_Witness ==
  \E i, j \in Inv : /\ inv[i].pc = "dismissed" /\ inv[i].ret = "pending"
                    /\ MarkersBy(doc, i) = 1
                    /\ i < j /\ inv[j].pc = "done"

\* Number of items of d that invocation j wrote as its replacement.
WrittenBy(d, j) == Cardinality({p \in 1..Len(d) : ~IsMarker(d[p]) /\ d[p].by = j})

\* C23: each marker is resolved at most once: every invocation makes one
\* resolve attempt, after which it is over whether the attempt replaced the
\* marker, found none or failed on a missing document; nothing is retried,
\* and an invocation writes into the note in that one step only.
C23_ResolvedAtMostOnce ==
  [][\A i \in Inv :
       /\ (inv[i].pc = "resolving" /\ inv'[i] # inv[i])
            => /\ inv'[i].pc = "done"
               /\ inv'[i].log \in {<<"debug:replacing">>, <<"warn:marker-not-found">>, <<"warn:could-not-update">>}
       /\ inv[i].pc = "done" => inv'[i] = inv[i]
       /\ WrittenBy(doc', i) > WrittenBy(doc, i) => ResolveStep(i)]_vars

\* C23 witness: the one attempt of an invocation found no marker in the
\* note, which is still there, and the invocation is over.
C23_Witness ==
  \E i \in Inv : /\ inv[i].pc = "done" /\ inv[i].log = <<"warn:marker-not-found">>
                 /\ fileExists /\ WrittenBy(doc, i) = 0

\* C24: whenever the generate call of an invocation has settled, with a
\* result, an error or a cancellation, the resolve step of that invocation
\* eventually runs, and from then on its marker is no longer in the note
\* (the note being gone, or the marker removed by the user, included).
C24_SettledIsEventuallyResolved ==
  \A i \in Inv : (inv[i].pc = "resolving") ~> (inv[i].pc = "done" /\ MarkersBy(doc, i) = 0)

\* Number of occurrences of the marker string tok in d.
Occurrences(d, tok) == Cardinality({p \in 1..Len(d) : IsMarker(d[p]) /\ d[p].tok = tok})

CommandStep == desk'.commands = desk.commands + 1

\* What the command reads as its source text, given the selection it saw.
SourceOf(text, sel) == IF sel.from < sel.to THEN SubSeq(text, sel.from + 1, sel.to) ELSE text

\* C26: on submit the marker is written into the note in the same step, at
\* the end of the selection when there is one and otherwise at the end of
\* the last line, which is the end of the note; the note is otherwise as the
\* command found it, the source text handed to generate is the text before
\* the marker was written, and generate is called after the marker is in.
C26_MarkerWrittenAtSubmit ==
  [][(CommandStep /\ desk'.pc = "generating")
       => LET text == desk.texts[desk.active]
              sel == desk'.sel
              p == IF sel.from < sel.to THEN sel.to ELSE Len(text)
          IN /\ desk'.texts[desk.active] = SubSeq(text, 1, p) \o <<Mk(desk'.marker, 1)>> \o SubSeq(text, p + 1, Len(text))
             /\ \A v \in Views \ {desk.active} : desk'.texts[v] = desk.texts[v]
             /\ desk'.sourceText = SourceOf(text, sel)
             /\ desk'.file = desk.active
             /\ desk'.generateCalls = desk.generateCalls + 1]_vars

\* C26 witness: with nothing selected in a note of two lines, the marker
\* stands behind the last character of the last line.
C26_Witness ==
  /\ desk.pc = "generating" /\ desk.typed = 0
  /\ desk.sel.from = desk.sel.to
  /\ LET text == desk.texts[desk.file]
     IN /\ Len(text) = 5
        /\ text[2].c = "\n"
        /\ text[5] = Mk(desk.marker, 1)

\* C27: the resolve step touches only the note captured at submit: every
\* other note and view, the active one included, keeps its content, and
\* when the captured note is there with the marker in it the marker is
\* replaced in that note.
C27_OnlyCapturedNoteTouched ==
  [][(desk.pc = "settled" /\ desk'.pc = "done")
       => /\ \A v \in Views \ {desk.file} : desk'.texts[v] = desk.texts[v]
          /\ desk'.exists = desk.exists /\ desk'.active = desk.active
          /\ (desk.file \in desk.exists /\ MarkersBy(desk.texts[desk.file], 1) = 1)
               => /\ MarkersBy(desk'.texts[desk.file], 1) = 0
                  /\ desk'.log = "debug:replacing"
                  /\ Truthy(desk.replacementText) => WrittenBy(desk'.texts[desk.file], 1) > 0]_vars

\* C27 witness: the user has switched to another view and typed there while
\* the generation was pending; the result stands in the captured note and
\* nothing of it in the active view.
C27_Witness ==
  /\ desk.pc = "done" /\ desk.active # desk.file /\ desk.file \in desk.exists
  /\ WrittenBy(desk.texts[desk.file], 1) > 0
  /\ WrittenBy(desk.texts[desk.active], 1) = 0
  /\ \E p \in 1..Len(desk.texts[desk.active]) : desk.texts[desk.active][p].c = "x"

\* C30: when the source text (the selection, or the whole note when nothing
\* is selected) is empty or only whitespace, or the view has no file,
\* handleGenerateImage changes no note: it writes no marker, starts no
\* generation and shows no notification; it only logs a warning.
C30_BlankOrFilelessIsNoOp ==
  [][CommandStep
       => LET source == SourceOf(desk.texts[desk.active], desk'.sel)
          IN (TrimIsEmpty(source) \/ desk.active = NoFile)
               => /\ desk' = [desk EXCEPT !.commands = @ + 1, !.sel = desk'.sel, !.log = desk'.log]
                  /\ desk'.log = IF TrimIsEmpty(source) THEN "warn:no-text" ELSE "warn:no-file"]_vars

\* C30 witness: the command ran on a selection of whitespace in a note that
\* has text, and left the note as it was.
C30_Witness ==
  /\ desk.commands = 1 /\ desk.pc = "idle" /\ desk.log = "warn:no-text"
  /\ desk.sel.from < desk.sel.to
  /\ desk.typed = 0 /\ desk.active = "a"
  /\ desk.texts["a"] = Text(<<"a", " ">>, 0)

\* C29: an invocation does not work on the settings it started with: the
\* service reads the settings object when a step needs it, so saveImage,
\* which starts when the provider call has returned, makes its folder and
\* its file under the image output directory in force at that moment, also
\* when the directory was changed while the invocation was suspended.
C29_CurrentSettingsAtEachStep ==
  [][\A i \in Inv :
       /\ (SaveImageStep(i) /\ inv'[i].pc \in {"mkdir", "write"})
            => inv'[i].dir = OutputDir(settings.imageOutputDirectory, noteName)
       /\ (inv[i].pc = "write" /\ inv'[i].pc = "resolving" /\ inv'[i].ret = "object")
            => /\ files' = files \cup {inv[i].path}
               /\ SubSeq(inv[i].path, 1, Len(inv[i].dir)) = inv[i].dir]_vars

\* C29 witness: the output directory was changed while an invocation was
\* suspended, and the invocation writes its file under the new directory.
C29_Witness ==
  \E i \in Inv : /\ inv[i].pc = "write"
                 /\ inv[i].dirAtSubmit # settings.imageOutputDirectory
                 /\ inv[i].dir = OutputDir(settings.imageOutputDirectory, noteName)
                 /\ inv[i].dir # OutputDir(inv[i].dirAtSubmit, noteName)

\* C21: the credential file and the prompt folder are read on every call of
\* generate, and nothing of an earlier call is used: the EnvConfig of a call
\* is what the file at the path in the settings holds when the call starts,
\* its prompt files are the files of the folder named in the settings when
\* the call starts, the request carries the key and the model of that
\* EnvConfig and one of those prompt files, and between two calls the
\* service holds no EnvConfig and no prompt files.
C21_ReadAnewOnEveryCall ==
  /\ [](svc.pc = "idle" => svc.envConfig = NoEnvConfig /\ svc.promptFiles = {} /\ svc.request = NoSvcRequest)
  /\ [][/\ (svc.pc = "idle" /\ svc'.pc = "catalog")
           => /\ svc'.envConfig.geminiApiKey = svc.envFiles[svc.settings.envFilePath].key
              /\ svc'.envConfig.geminiModel = svc.envFiles[svc.settings.envFilePath].model
              /\ svc'.folder = svc.settings.promptDirectory
        /\ (svc.pc = "catalog" /\ svc'.pc = "select")
           => svc'.promptFiles = svc.promptFolders[svc.folder]
        /\ (svc.pc = "select" /\ svc'.ret = "object")
           => /\ svc'.request.key = svc.envConfig.geminiApiKey
              /\ svc'.request.model = svc.envConfig.geminiModel
              /\ svc'.request.prompt \in svc.promptFiles]_vars

\* C21 witness: after the credential path and the prompt directory were
\* changed, the next call sends a request with another key, another model
\* and a prompt file the call before did not have.
C21_Witness ==
  /\ svc.pc = "settled"
  /\ svc.ret = "object"
  /\ svc.last.request # NoSvcRequest
  /\ svc.request.key # svc.last.request.key
  /\ svc.request.model # svc.last.request.model
  /\ svc.request.prompt \notin svc.last.promptFiles

====
